---- MODULE Spec2Model ----
(***************************************************************************)
(* Model of the AstroSlide backend: the preset engine of                   *)
(* src/backend/presets.py (enhance_with_preset, reduce_stars,              *)
(* detect_stars_aggressive) and the request handlers of                    *)
(* src/backend/main.py (/api/enhance, /api/preview-preset,                 *)
(* /api/reduce-stars).  Spec is the behaviour of the enhancement requests, *)
(* SpecReduce the behaviour of the star-reduction requests, SpecPool (with *)
(* fairness: SpecPoolLive) the behaviour of concurrent requests on the     *)
(* thread pool of main.py:18, and SpecPrim the direct calls of the         *)
(* functions of presets.py, one at a time.                                 *)
(*                                                                         *)
(* Numbers.  An intensity is an integer number of hundredths (0.75 is 75). *)
(* The request intensities are multiples of 0.25, which float32 holds      *)
(* exactly, so the integer arithmetic of Blend is the float32 arithmetic   *)
(* of the code.  A sample is an integer 0..255.  A grid is a sequence of   *)
(* pixels, a pixel a triple of samples in the channel order of the array.  *)
(*                                                                         *)
(* Library code (the OpenCV/scikit-image bodies of the preset pipelines,   *)
(* cv2.resize, the contour search of add_star_spikes) is not in the        *)
(* repository.  Each such call is a function of its arguments whose value  *)
(* is chosen by the environment the first time the call is made and        *)
(* remembered in `oracle`, so that equal arguments give equal results.     *)
(***************************************************************************)
EXTENDS Integers, Sequences, FiniteSets, TLC

VARIABLES
    registry,     \* presets.PRESETS, the module-level dict (insertion ordered)
    pc,           \* position of the request in its handler / in the engine
    req,          \* the request as sent by the client
    img_array,    \* handler local: the decoded upload (NoGrid before decoding)
    h_intensity,  \* handler local `intensity` after main.py:226
    ewp,          \* arguments of the running enhance_with_preset call
    e_intensity,  \* engine local `intensity` after presets.py:1430
    enhanced,     \* engine local `enhanced`
    calls,        \* every I/O, pool submission and pixel function called so far
    response,     \* what the caller got (kind "none" while running)
    oracle,       \* remembered results of library calls
    rs,           \* arguments and locals of the running reduce_stars call
    first,        \* image and intensity of the first successful run
    pool,         \* the concurrent requests and the executor of main.py:18
    prim          \* the direct call of one primitive: its arguments and result

vars == <<registry, pc, req, img_array, h_intensity, ewp, e_intensity,
          enhanced, calls, response, oracle, rs, first, pool, prim>>

---------------------------------------------------------------------------
(* Bounds and input sets *)

\* pixels per grid
NumPixels == 1

\* the scale of intensities: 1.0 is Unit hundredths
Unit == 100

MaxSample == 255

PixelVals == { <<0, 0, 0>>, <<100, 0, 255>>, <<101, 255, 0>> }

Grids == [1..NumPixels -> PixelVals]

NoGrid == << >>

\* intensities a client may send: -0.25, 0, 0.5, 0.75, 1.0, 1.75
IntensityVals == {0 - 25, 0, 50, 75, 100, 175}

\* what add_star_spikes may add to one pixel (BGR order)
LayerVals == { <<0, 0, 0>>, <<60, 30, 0>> }

SpikeLayers == [1..NumPixels -> LayerVals]

Max2(a, b) == IF a >= b THEN a ELSE b

Min2(a, b) == IF a <= b THEN a ELSE b

RECURSIVE GCD(_, _)
GCD(a, b) == IF b = 0 THEN a ELSE GCD(b, a % b)

---------------------------------------------------------------------------
(* presets.py: the registry *)

PRESETS ==
    << [id |-> "mineral_moon_subtle", function |-> "enhance_mineral_moon_subtle",
        name |-> "Mineral Moon (Subtle)",
        description |-> "Conservative enhancement for scientific accuracy",
        best_for |-> "Scientific/realistic lunar imaging"],
       [id |-> "deep_sky", function |-> "enhance_deep_sky",
        name |-> "Deep Sky Boost",
        description |-> "Optimized for nebulae, galaxies, and star clusters",
        best_for |-> "Deep space objects"],
       [id |-> "general", function |-> "enhance_general",
        name |-> "General Auto",
        description |-> "Balanced enhancement for any astrophoto",
        best_for |-> "General astrophotography"],
       [id |-> "moon_hdr", function |-> "enhance_moon_hdr",
        name |-> "Moon HDR",
        description |-> "HDR tone mapping for lunar surface detail",
        best_for |-> "Seestar and smart telescope moon captures"],
       [id |-> "nebula", function |-> "enhance_nebula",
        name |-> "Nebula",
        description |-> "Optimized for emission nebulae with strong SCNR and saturation",
        best_for |-> "Orion, Lagoon, Rosette, and other emission nebulae"],
       [id |-> "galaxy", function |-> "enhance_galaxy",
        name |-> "Galaxy",
        description |-> "Gentle processing for spiral and elliptical galaxies",
        best_for |-> "Andromeda, Whirlpool, Pinwheel, and other galaxies"],
       [id |-> "star_cluster", function |-> "enhance_star_cluster",
        name |-> "Star Cluster",
        description |-> "Strong sharpening with natural star colors preserved",
        best_for |-> "Pleiades, M13, Double Cluster, and other clusters"] >>

\* `preset in PRESETS`
InRegistry(reg, preset) == \E i \in 1..Len(reg) : reg[i].id = preset

\* `list(PRESETS.keys())`
RegistryKeys(reg) == [i \in 1..Len(reg) |-> reg[i].id]

\* `PRESETS[preset]`
Lookup(reg, preset) == reg[CHOOSE i \in 1..Len(reg) : reg[i].id = preset]

\* preset identifiers a client may send: the registered ones and two others
ReqPresets == {PRESETS[i].id : i \in 1..Len(PRESETS)} \cup {"bogus", "Nebula"}

---------------------------------------------------------------------------
(* presets.py: enhance_with_preset, the pure parts *)

\* the clamp with its lower limit left out
ClampUnit_NoLowerLimit(t) == Min2(Unit, t)

\* the clamp with its upper limit left out
ClampUnit_NoUpperLimit(t) == Max2(0, t)

\* max(0.0, min(1.0, intensity))
ClampUnit(t) == Max2(0, Min2(Unit, t))

\* np.clip(x, 0, 255) for x in hundredths of a sample
ClipSample(x) == Max2(0, Min2(MaxSample * Unit, x))

\* a conversion that rounds to the nearest integer instead
ToUint8_Rounding(x) == (x + 50) \div Unit

\* .astype(np.uint8) of a clipped non-negative value: the fraction is dropped
ToUint8(x) == x \div Unit

\* the blend with the two weights exchanged
BlendValue_WeightsSwapped(o, e, t) == o * t + e * (Unit - t)

\* the blend with the original at full weight
BlendValue_OriginalUnweighted(o, e, t) == o * Unit + e * t

\* original*(1 - intensity) + enhanced*intensity of one sample, in hundredths
BlendValue(o, e, t) == o * (Unit - t) + e * t

\* presets.py:1442-1445
Blend(original, full, t) ==
    [i \in 1..Len(original) |->
        [c \in 1..3 |-> ToUint8(ClipSample(BlendValue(original[i][c], full[i][c], t)))]]

\* cv2.cvtColor(img, COLOR_RGB2BGR) and COLOR_BGR2RGB: channels 0 and 2 change places
SwapRB(img) == [i \in 1..Len(img) |-> <<img[i][3], img[i][2], img[i][1]>>]

\* presets.py:680-682: np.clip(result + spike_layer, 0, 255).astype(np.uint8)
AddLayer(img, layer) ==
    [i \in 1..Len(img) |-> [c \in 1..3 |-> Min2(MaxSample, img[i][c] + layer[i][c])]]

\* the arguments enhance_with_preset passes to add_star_spikes (presets.py:1454-1457)
SpikeLength == 50
SpikeBrightness == 60
SpikeThresholdFactor == 200
SpikeNum == 4

SpikeArgs == <<SpikeLength, SpikeBrightness, SpikeThresholdFactor, SpikeNum>>

---------------------------------------------------------------------------
(* library calls *)

Known(fn, img) == {e \in oracle : e.fn = fn /\ e.img = img}

\* the results a library call may give: the remembered one, else any candidate
Results(fn, img, candidates) ==
    IF Known(fn, img) = {} THEN candidates ELSE {e.out : e \in Known(fn, img)}

Remember(fn, img, out) == oracle \cup {[fn |-> fn, img |-> img, out |-> out]}

Call(fn, img, args) == [fn |-> fn, img |-> img, args |-> args]

---------------------------------------------------------------------------
(* main.py: request handling *)

\* main.py:93-102
validate_image_file(file) ==
    \/ file.ext \in {".jpg", ".jpeg", ".png", ".tiff", ".tif", ".fits"}
    \/ file.content_type \in {"image/jpeg", "image/png", "image/tiff",
                              "application/fits", "image/fits"}

Files == { [ext |-> ".fits", content_type |-> "application/octet-stream"],
           [ext |-> ".exe", content_type |-> "text/plain"] }

ValidFormats == {"jpeg", "png", "tiff"}

\* shape: height and width of the decoded upload (img_array.shape[:2]); the
\* previews are asked for a tiny, a square, a landscape, a portrait and two
\* thin images
Requests ==
    [endpoint : {"enhance"}, file : Files, preset : ReqPresets,
     output_format : {"jpeg", "bmp"}, too_large : BOOLEAN, corrupt : BOOLEAN,
     intensity : IntensityVals, star_spikes : BOOLEAN, upload : Grids,
     shape : {<<1, 1>>}]
    \cup
    [endpoint : {"preview"}, file : Files, preset : ReqPresets,
     output_format : {"jpeg"}, too_large : {FALSE}, corrupt : BOOLEAN,
     intensity : {Unit}, star_spikes : {FALSE}, upload : Grids,
     shape : {<<1, 1>>, <<97, 97>>, <<300, 400>>, <<400, 300>>,
              <<201, 1>>, <<2, 300>>}]
    \cup
    [endpoint : {"direct"}, file : {[ext |-> "", content_type |-> ""]},
     preset : ReqPresets,
     output_format : {"jpeg"}, too_large : {FALSE}, corrupt : {FALSE},
     intensity : IntensityVals, star_spikes : BOOLEAN, upload : Grids,
     shape : {<<1, 1>>}]

NoRequest ==
    [endpoint |-> "none", file |-> [ext |-> "", content_type |-> ""], preset |-> "",
     output_format |-> "", too_large |-> FALSE, corrupt |-> FALSE,
     intensity |-> 0, star_spikes |-> FALSE, upload |-> NoGrid,
     shape |-> <<0, 0>>]

NoCall == [img |-> NoGrid, preset |-> "", intensity |-> 0, star_spikes |-> FALSE]

Reply(status, kind, available, image, intensity) ==
    [status |-> status, kind |-> kind, available |-> available,
     image |-> image, intensity |-> intensity]

NoReply == Reply(0, "none", << >>, NoGrid, 0)

NoFirst == [image |-> NoGrid, intensity |-> 0]

(* The executor (main.py:18): one pool of max_workers threads shared by    *)
(* every request.  NumRequests requests are in flight at most.             *)
max_workers == 4

NumRequests == 5

RequestIds == 1..NumRequests

\* no array: a handler local not yet assigned, a future without result
NoValue == [fn |-> "none", of |-> 0, complete |-> TRUE]

NoPool ==
    [r |-> [i \in RequestIds |->
               [st |-> "new", val |-> NoValue, tasks |-> << >>,
                ran_on |-> << >>, work |-> NoValue, raised |-> << >>,
                reply |-> [status |-> 0, image |-> NoValue]]],
     queue |-> << >>, abandoned |-> {}]

NoPrim == [fn |-> "none"]

NoReduce ==
    [img |-> NoGrid, star_mask |-> NoGrid, amount |-> 0, reduction_amount |-> 0,
     preserve_color |-> FALSE, result |-> NoGrid]

Init ==
    /\ registry = PRESETS
    /\ pc = "idle"
    /\ req = NoRequest
    /\ img_array = NoGrid
    /\ h_intensity = 0
    /\ ewp = NoCall
    /\ e_intensity = 0
    /\ enhanced = NoGrid
    /\ calls = << >>
    /\ response = NoReply
    /\ oracle = {}
    /\ rs = NoReduce
    /\ first = NoFirst
    /\ pool = NoPool
    /\ prim = NoPrim

\* the handler or the caller gets its answer; the first image is kept for comparison
Finish(reply) ==
    /\ response' = reply
    /\ pc' = "done"
    /\ first' = IF reply.kind = "ok" /\ first = NoFirst
                THEN [image |-> reply.image, intensity |-> req.intensity]
                ELSE first

\* a client sends a request, or a caller calls enhance_with_preset
Receive ==
    /\ pc = "idle"
    /\ \E r \in Requests :
         /\ req' = r
         /\ pc' = CASE r.endpoint = "enhance" -> "h_validate"
                    [] r.endpoint = "preview" -> "p_validate"
                    [] OTHER -> "d_call"
    /\ UNCHANGED <<registry, pool, prim, rs, img_array, h_intensity, ewp, e_intensity, enhanced,
                   calls, response, oracle, first>>

\* the handler without its preset check
enhance_validate_NoPresetCheck ==
    /\ pc = "h_validate"
    /\ IF ~validate_image_file(req.file)
         THEN Finish(Reply(400, "invalid_file", << >>, NoGrid, 0))
       ELSE IF req.output_format \notin ValidFormats
         THEN Finish(Reply(400, "invalid_format", << >>, NoGrid, 0))
       ELSE pc' = "h_read" /\ UNCHANGED <<response, first>>
    /\ UNCHANGED <<registry, pool, prim, rs, req, img_array, h_intensity, ewp, e_intensity,
                   enhanced, calls, oracle>>

\* main.py:189-209, /api/enhance: the three checks made before the upload is read
enhance_validate ==
    /\ pc = "h_validate"
    /\ IF ~validate_image_file(req.file)
         THEN Finish(Reply(400, "invalid_file", << >>, NoGrid, 0))
       ELSE IF ~InRegistry(registry, req.preset)
         THEN Finish(Reply(400, "invalid_preset", RegistryKeys(registry), NoGrid, 0))
       ELSE IF req.output_format \notin ValidFormats
         THEN Finish(Reply(400, "invalid_format", << >>, NoGrid, 0))
       ELSE pc' = "h_read" /\ UNCHANGED <<response, first>>
    /\ UNCHANGED <<registry, pool, prim, rs, req, img_array, h_intensity, ewp, e_intensity,
                   enhanced, calls, oracle>>

\* main.py:211-226, /api/enhance: read, size check, decode, clamp
enhance_read ==
    /\ pc = "h_read"
    /\ IF req.too_large
         THEN /\ calls' = Append(calls, Call("file.read", NoGrid, << >>))
              /\ Finish(Reply(400, "too_large", << >>, NoGrid, 0))
              /\ UNCHANGED <<img_array, h_intensity>>
       ELSE IF req.corrupt
         THEN /\ calls' = calls \o << Call("file.read", NoGrid, << >>),
                                      Call("decode_image", NoGrid, << >>) >>
              /\ Finish(Reply(400, "decode_failed", << >>, NoGrid, 0))
              /\ UNCHANGED <<img_array, h_intensity>>
       ELSE /\ calls' = calls \o << Call("file.read", NoGrid, << >>),
                                    Call("decode_image", NoGrid, << >>) >>
            /\ img_array' = req.upload
            /\ h_intensity' = ClampUnit(req.intensity)
            /\ pc' = "h_submit"
            /\ UNCHANGED <<response, first>>
    /\ UNCHANGED <<registry, pool, prim, rs, req, ewp, e_intensity, enhanced, oracle>>

\* main.py:229-234, /api/enhance: the pipeline is handed to the pool
enhance_submit ==
    /\ pc = "h_submit"
    /\ ewp' = [img |-> img_array, preset |-> req.preset,
               intensity |-> h_intensity, star_spikes |-> req.star_spikes]
    /\ calls' = Append(calls, Call("run_in_executor", img_array, << >>))
    /\ pc' = "ewp_start"
    /\ UNCHANGED <<registry, pool, prim, rs, req, img_array, h_intensity, e_intensity, enhanced,
                   response, oracle, first>>

\* main.py:238-267, /api/enhance: encode in the pool and answer
enhance_encode ==
    /\ pc = "h_encode"
    /\ calls' = Append(calls, Call("encode_output", enhanced, << >>))
    /\ Finish(Reply(200, "ok", << >>, enhanced, h_intensity))
    /\ UNCHANGED <<registry, pool, prim, rs, req, img_array, h_intensity, ewp, e_intensity,
                   enhanced, oracle>>

\* main.py:247-248, /api/enhance: encode_output raises
enhance_encode_fails ==
    /\ pc = "h_encode"
    /\ calls' = Append(calls, Call("encode_output", enhanced, << >>))
    /\ Finish(Reply(500, "encode_failed", << >>, NoGrid, 0))
    /\ UNCHANGED <<registry, pool, prim, rs, req, img_array, h_intensity, ewp, e_intensity,
                   enhanced, oracle>>

\* main.py:319-329, /api/preview-preset: the checks made before the upload is read
preview_validate ==
    /\ pc = "p_validate"
    /\ IF ~validate_image_file(req.file)
         THEN Finish(Reply(400, "invalid_file", << >>, NoGrid, 0))
       ELSE IF ~InRegistry(registry, req.preset)
         THEN Finish(Reply(400, "invalid_preset", << >>, NoGrid, 0))
       ELSE pc' = "p_read" /\ UNCHANGED <<response, first>>
    /\ UNCHANGED <<registry, pool, prim, rs, req, img_array, h_intensity, ewp, e_intensity,
                   enhanced, calls, oracle>>

\* main.py:331-332, /api/preview-preset: read and decode
preview_read ==
    /\ pc = "p_read"
    /\ calls' = calls \o << Call("file.read", NoGrid, << >>),
                            Call("decode_image", NoGrid, << >>) >>
    /\ IF req.corrupt
         THEN /\ Finish(Reply(400, "decode_failed", << >>, NoGrid, 0))
              /\ UNCHANGED img_array
         ELSE /\ img_array' = req.upload
              /\ pc' = "p_submit"
              /\ UNCHANGED <<response, first>>
    /\ UNCHANGED <<registry, pool, prim, rs, req, h_intensity, ewp, e_intensity, enhanced, oracle>>

\* main.py:336
max_size == 200

\* int(a * (max_size / b)) in double arithmetic.  The quotient max_size / b
\* is exact when b / gcd(b, max_size) is a power of two, and the product is
\* then exact too.  Otherwise the quotient is rounded, and where the exact
\* product is a whole number q the rounded one may fall just below it and
\* be cut to q - 1 (97 * (200 / 97) gives 199): both outcomes are allowed.
ScaledSide(a, b) ==
    LET q == (max_size * a) \div b
        d == b \div GCD(b, max_size)
    IN  IF (max_size * a) % b = 0 /\ ~(\E k \in 0..30 : d = 2 ^ k)
        THEN {q - 1, q}
        ELSE {q}

\* main.py:335-342: the dsize (new_w, new_h) of the thumbnail
ThumbnailSize_NoResize(h, w) == { <<w, h>> }

ThumbnailSize(h, w) ==
    IF h > w
    THEN { <<new_w, max_size>> : new_w \in ScaledSide(w, h) }
    ELSE { <<max_size, new_h>> : new_h \in ScaledSide(h, w) }

\* main.py:334-352, /api/preview-preset: resize, then the pipeline is handed to
\* the pool with intensity 1.0 and no spikes.  cv2.resize raises for a dsize
\* with a zero side; the call is outside the try block, so the exception
\* reaches the framework, which answers 500
preview_submit ==
    /\ pc = "p_submit"
    /\ \E dsize \in ThumbnailSize(req.shape[1], req.shape[2]) :
         IF dsize[1] < 1 \/ dsize[2] < 1
         THEN /\ calls' = Append(calls, Call("cv2.resize", img_array, dsize))
              /\ Finish(Reply(500, "internal_error", << >>, NoGrid, 0))
              /\ UNCHANGED <<ewp, oracle>>
         ELSE \E thumbnail \in Results("cv2.resize", img_array, Grids) :
              /\ oracle' = Remember("cv2.resize", img_array, thumbnail)
              /\ ewp' = [img |-> thumbnail, preset |-> req.preset,
                         intensity |-> Unit, star_spikes |-> FALSE]
              /\ calls' = calls \o << Call("cv2.resize", img_array, dsize),
                                      Call("run_in_executor", thumbnail, << >>) >>
              /\ pc' = "ewp_start"
              /\ UNCHANGED <<response, first>>
    /\ UNCHANGED <<registry, pool, prim, rs, req, img_array, h_intensity, e_intensity, enhanced>>

\* main.py:356-366, /api/preview-preset: encode as JPEG and answer
preview_encode ==
    /\ pc = "p_encode"
    /\ Finish(Reply(200, "ok", << >>, enhanced, Unit))
    /\ UNCHANGED <<registry, pool, prim, rs, req, img_array, h_intensity, ewp, e_intensity,
                   enhanced, calls, oracle>>

\* a caller of the library calls enhance_with_preset on an array it holds
direct_call ==
    /\ pc = "d_call"
    /\ img_array' = IF img_array = NoGrid THEN req.upload ELSE img_array
    /\ ewp' = [img |-> img_array', preset |-> req.preset,
               intensity |-> req.intensity, star_spikes |-> req.star_spikes]
    /\ pc' = "ewp_start"
    /\ UNCHANGED <<registry, pool, prim, rs, req, h_intensity, e_intensity, enhanced, calls,
                   response, oracle, first>>

---------------------------------------------------------------------------
(* presets.py: enhance_with_preset, step by step *)

\* an exception leaves enhance_with_preset: the handlers turn it into a 500
\* (main.py:235-236, 353-354), a caller of the library gets the exception
Raise(kind, available) ==
    CASE req.endpoint = "enhance" ->
           Finish(Reply(500, "enhancement_failed", available, NoGrid, 0))
      [] req.endpoint = "preview" ->
           Finish(Reply(500, "preview_failed", available, NoGrid, 0))
      [] OTHER -> Finish(Reply(0, kind, available, NoGrid, 0))

\* presets.py:1426-1432: reject an unknown preset, clamp the intensity
ewp_check ==
    /\ pc = "ewp_start"
    /\ IF ~InRegistry(registry, ewp.preset)
         THEN /\ Raise("ValueError", RegistryKeys(registry))
              /\ UNCHANGED e_intensity
         ELSE /\ e_intensity' = ClampUnit(ewp.intensity)
              /\ pc' = "ewp_pipeline"
              /\ UNCHANGED <<response, first>>
    /\ UNCHANGED <<registry, pool, prim, rs, req, img_array, h_intensity, ewp, enhanced, calls,
                   oracle>>

\* a pipeline that writes its result into the array it was given
ewp_pipeline_InPlace ==
    /\ pc = "ewp_pipeline"
    /\ LET fn == Lookup(registry, ewp.preset).function IN
         \E out \in Results(fn, ewp.img, Grids) :
           /\ enhanced' = out
           /\ ewp' = [ewp EXCEPT !.img = out]
           /\ img_array' = IF req.endpoint = "preview" THEN img_array ELSE out
           /\ oracle' = Remember(fn, ewp.img, out)
           /\ calls' = Append(calls, Call(fn, ewp.img, << >>))
    /\ pc' = "ewp_blend"
    /\ UNCHANGED <<registry, pool, prim, rs, req, h_intensity, e_intensity, response, first>>

\* presets.py:1432-1435: enhanced = PRESETS[preset]["function"](img_array);
\* every pipeline works on arrays of its own and leaves img_array as it was
ewp_pipeline ==
    /\ pc = "ewp_pipeline"
    /\ LET fn == Lookup(registry, ewp.preset).function IN
         \E out \in Results(fn, ewp.img, Grids) :
           /\ enhanced' = out
           /\ oracle' = Remember(fn, ewp.img, out)
           /\ calls' = Append(calls, Call(fn, ewp.img, << >>))
    /\ pc' = "ewp_blend"
    /\ UNCHANGED <<registry, pool, prim, rs, req, img_array, h_intensity, ewp, e_intensity,
                   response, first>>

\* presets.py:1435: the pipeline raises
ewp_pipeline_raises ==
    /\ pc = "ewp_pipeline"
    /\ calls' = Append(calls, Call(Lookup(registry, ewp.preset).function, ewp.img, << >>))
    /\ Raise("Exception", << >>)
    /\ UNCHANGED <<registry, pool, prim, rs, req, img_array, h_intensity, ewp, e_intensity,
                   enhanced, oracle>>

\* presets.py:1440-1445: blend with the original when intensity < 1.0
ewp_blend ==
    /\ pc = "ewp_blend"
    /\ IF e_intensity < Unit
         THEN /\ enhanced' = Blend(ewp.img, enhanced, e_intensity)
              /\ calls' = Append(calls, Call("blend", enhanced, <<e_intensity>>))
         ELSE UNCHANGED <<enhanced, calls>>
    /\ pc' = "ewp_spikes"
    /\ UNCHANGED <<registry, pool, prim, rs, req, img_array, h_intensity, ewp, e_intensity,
                   response, oracle, first>>

\* the spikes drawn on the original instead of the blended result
ewp_spikes_OnOriginal ==
    /\ pc = "ewp_spikes"
    /\ IF ewp.star_spikes
         THEN LET enhanced_bgr == SwapRB(ewp.img) IN
              \E out \in Results("add_star_spikes", enhanced_bgr,
                                 {AddLayer(enhanced_bgr, l) : l \in SpikeLayers}) :
                /\ oracle' = Remember("add_star_spikes", enhanced_bgr, out)
                /\ calls' = Append(calls, Call("add_star_spikes", enhanced_bgr, SpikeArgs))
                /\ enhanced' = SwapRB(out)
         ELSE UNCHANGED <<enhanced, calls, oracle>>
    /\ pc' = "ewp_return"
    /\ UNCHANGED <<registry, pool, prim, rs, req, img_array, h_intensity, ewp, e_intensity,
                   response, first>>

\* presets.py:1448-1460: the optional spikes, on the BGR copy of `enhanced`
ewp_spikes ==
    /\ pc = "ewp_spikes"
    /\ IF ewp.star_spikes
         THEN LET enhanced_bgr == SwapRB(enhanced) IN
              \E out \in Results("add_star_spikes", enhanced_bgr,
                                 {AddLayer(enhanced_bgr, l) : l \in SpikeLayers}) :
                /\ oracle' = Remember("add_star_spikes", enhanced_bgr, out)
                /\ calls' = Append(calls, Call("add_star_spikes", enhanced_bgr, SpikeArgs))
                /\ enhanced' = SwapRB(out)
         ELSE UNCHANGED <<enhanced, calls, oracle>>
    /\ pc' = "ewp_return"
    /\ UNCHANGED <<registry, pool, prim, rs, req, img_array, h_intensity, ewp, e_intensity,
                   response, first>>

\* presets.py:1462: return enhanced
ewp_return ==
    /\ pc = "ewp_return"
    /\ CASE req.endpoint = "enhance" -> pc' = "h_encode" /\ UNCHANGED <<response, first>>
         [] req.endpoint = "preview" -> pc' = "p_encode" /\ UNCHANGED <<response, first>>
         [] OTHER -> Finish(Reply(0, "ok", << >>, enhanced, e_intensity))
    /\ UNCHANGED <<registry, pool, prim, rs, req, img_array, h_intensity, ewp, e_intensity,
                   enhanced, calls, oracle>>

\* two intensities on the same side of the range [0, 1], or equal
SameSide(t, u) == (t >= Unit /\ u >= Unit) \/ (t <= 0 /\ u <= 0) \/ t = u

\* the same upload is sent again with the same preset and spikes flag (a retry,
\* a repeated run), at the same intensity or at another one on the same side of
\* the range: a handler decodes the upload afresh, a caller of the library
\* passes the array it holds
Retry ==
    /\ pc = "done"
    /\ \E t \in {u \in IntensityVals : SameSide(u, req.intensity)} :
         req' = [req EXCEPT !.intensity = IF req.endpoint = "preview" THEN Unit ELSE t]
    /\ pc' = CASE req.endpoint = "enhance" -> "h_validate"
               [] req.endpoint = "preview" -> "p_validate"
               [] OTHER -> "d_call"
    /\ img_array' = IF req.endpoint = "direct" THEN img_array ELSE NoGrid
    /\ h_intensity' = 0
    /\ ewp' = NoCall
    /\ e_intensity' = 0
    /\ enhanced' = NoGrid
    /\ calls' = << >>
    /\ response' = NoReply
    /\ UNCHANGED <<registry, pool, prim, rs, oracle, first>>

Next ==
    \/ Receive
    \/ enhance_validate
    \/ enhance_read
    \/ enhance_submit
    \/ enhance_encode
    \/ enhance_encode_fails
    \/ preview_validate
    \/ preview_read
    \/ preview_submit
    \/ preview_encode
    \/ direct_call
    \/ ewp_check
    \/ ewp_pipeline
    \/ ewp_pipeline_raises
    \/ ewp_blend
    \/ ewp_spikes
    \/ ewp_return
    \/ Retry

Spec == Init /\ [][Next]_vars

---------------------------------------------------------------------------
(* presets.py: star detection and star reduction.                          *)
(* A grid is one row of RowLen pixels in BGR order; a mask is one row of   *)
(* 0/255.  The reduction amounts are multiples of 0.5, for which the       *)
(* float32 blend of reduce_stars is exact.                                 *)

\* pixels in the row of a star-reduction grid
RowLen == 3

StarPixelVals == { <<0, 0, 0>>, <<255, 255, 255>>, <<40, 80, 200>> }

StarGrids == [1..RowLen -> StarPixelVals]

Masks == [1..RowLen -> {0, 255}]

\* reduction amounts a client may send: -0.5, 0, 0.5, 1.0, 1.5
ReductionVals == {0 - 50, 0, 50, 100, 150}

RECURSIVE SumSeq(_)
SumSeq(row) == IF row = << >> THEN 0 ELSE row[1] + SumSeq(Tail(row))

RowMin(row) == CHOOSE x \in {row[i] : i \in 1..Len(row)} :
                   \A i \in 1..Len(row) : x <= row[i]

RowMax(row) == CHOOSE x \in {row[i] : i \in 1..Len(row)} :
                   \A i \in 1..Len(row) : x >= row[i]

\* the sequence f with every element evaluated
Row(f) == SubSeq(f, 1, Len(f))

Channel(img, c) == Row([i \in 1..Len(img) |-> img[i][c]])

\* cv2.cvtColor(img, cv2.COLOR_BGR2GRAY): 15-bit fixed point, rounded
Gray(img) ==
    Row([i \in 1..Len(img) |->
        (img[i][1] * 3735 + img[i][2] * 19235 + img[i][3] * 9798 + 16384) \div 32768])

\* presets.py:512, 1.0 - reduction_amount*0.3, in ten-thousandths
Sensitivity(reduction_amount) == 10000 - 30 * reduction_amount

\* presets.py:415, int(-3 * sensitivity): the fraction is dropped towards zero
CValue(sensitivity) == 0 - ((3 * sensitivity) \div 10000)

\* cv2.adaptiveThreshold(gray, 255, GAUSSIAN_C, THRESH_BINARY, 31, c_value):
\* a pixel is set when it exceeds the Gaussian-weighted mean of its 31x31
\* neighbourhood by more than -c_value.  The weighted mean lies between the
\* least and the greatest sample of the row; which masks are possible is all
\* the model keeps of it.
AdaptiveCandidates(gray, c_value) ==
    { m \in [1..Len(gray) -> {0, 255}] :
        \A i \in 1..Len(gray) :
            /\ m[i] = 255 => gray[i] - RowMin(gray) > 0 - c_value
            /\ m[i] = 0 => gray[i] - RowMax(gray) <= 0 - c_value }

\* the global mask with the strict comparison replaced by >=
GlobalMask_NotStrict(gray, sensitivity) ==
    LET n == Len(gray)
        S == SumSeq(gray)
        D == n * SumSeq([i \in 1..n |-> gray[i] * gray[i]]) - S * S
        g == GCD(20000, 3 * sensitivity)
        a == 20000 \div g
        b == (3 * sensitivity) \div g
    IN  Row([i \in 1..n |->
            LET l == n * gray[i] - S
            IN IF l >= 0 /\ l * l * a * a >= b * b * D THEN 255 ELSE 0])

\* presets.py:423-426: gray > mean + std*(1.5*sensitivity).  With n samples of
\* sum S and D = n*sum(g^2) - S^2: n*g - S > 1.5*sensitivity*sqrt(D), compared
\* after squaring, the ratio 20000 : 3*sensitivity in lowest terms
GlobalMask(gray, sensitivity) ==
    LET n == Len(gray)
        S == SumSeq(gray)
        D == n * SumSeq([i \in 1..n |-> gray[i] * gray[i]]) - S * S
        g == GCD(20000, 3 * sensitivity)
        a == 20000 \div g
        b == (3 * sensitivity) \div g
    IN  Row([i \in 1..n |->
            LET l == n * gray[i] - S
            IN IF l > 0 /\ l * l * a * a > b * b * D THEN 255 ELSE 0])

\* cv2.bitwise_or of two 0/255 masks
BitwiseOr(m1, m2) == Row([i \in 1..Len(m1) |-> Max2(m1[i], m2[i])])

\* cv2.erode / cv2.dilate of a one-row mask with an elliptic structuring
\* element whose middle row is 2*half+1 ones; pixels outside the image are
\* ignored (the default border of the morphology functions)
Erode(mask, half) ==
    Row([i \in 1..Len(mask) |->
        RowMin(SubSeq(mask, Max2(1, i - half), Min2(Len(mask), i + half)))])

Dilate(mask, half) ==
    Row([i \in 1..Len(mask) |->
        RowMax(SubSeq(mask, Max2(1, i - half), Min2(Len(mask), i + half)))])

\* presets.py:406-443: the masks detect_stars_aggressive may return: for each
\* possible adaptive mask, its union with the global mask, opened 3x3, closed
\* 5x5 and dilated 5x5
detect_stars_aggressive(img, sensitivity) ==
    LET gray == Gray(img)
        global_mask == GlobalMask(gray, sensitivity)
    IN  { LET combined == BitwiseOr(adaptive_thresh, global_mask)
              opened == Dilate(Erode(combined, 1), 1)
              closed == Erode(Dilate(opened, 2), 2)
          IN  Dilate(closed, 2) :
          adaptive_thresh \in AdaptiveCandidates(gray, CValue(sensitivity)) }

\* presets.py:516, np.sum(star_mask > 0)
star_count(star_mask) == Cardinality({i \in 1..Len(star_mask) : star_mask[i] > 0})

\* presets.py:522
kernel_size == 15

\* cv2.medianBlur(channel, kernel_size) at column i: the window is filled by
\* replicating the border, each of its columns holds kernel_size equal samples
MedianAt(row, i) ==
    LET mid == (kernel_size + 1) \div 2
        s == [d \in 1..kernel_size |-> row[Max2(1, Min2(Len(row), i + d - mid))]]
    IN  CHOOSE x \in {s[d] : d \in 1..kernel_size} :
            /\ Cardinality({d \in 1..kernel_size : s[d] <= x}) >= mid
            /\ Cardinality({d \in 1..kernel_size : s[d] < x}) < mid

\* presets.py:523-525
MedianBg(img) ==
    Row([i \in 1..Len(img) |-> <<MedianAt(Channel(img, 1), i),
                                 MedianAt(Channel(img, 2), i),
                                 MedianAt(Channel(img, 3), i)>>])

\* BORDER_REFLECT_101 of column p in a row of len columns
RECURSIVE Reflect101(_, _)
Reflect101(p, len) ==
    IF len = 1 THEN 1
    ELSE IF p < 1 THEN Reflect101(2 - p, len)
    ELSE IF p > len THEN Reflect101(2 * len - p, len)
    ELSE p

\* the fixed kernels of cv2.GaussianBlur for sigma 0: sizes 7 (in 64ths) and
\* 5 (in 16ths)
Kernel7 == <<2, 7, 14, 18, 14, 7, 2>>

Kernel5 == <<1, 4, 6, 4, 1>>

\* cv2.GaussianBlur(mask / 255.0, kernel, 0) of a one-row mask, as the
\* numerator over the sum of the kernel
Feather(mask, kernel) ==
    LET k == Len(kernel)
        mid == (k + 1) \div 2
    IN  Row([i \in 1..Len(mask) |->
            SumSeq([d \in 1..k |->
                kernel[d] * (mask[Reflect101(i + d - mid, Len(mask))] \div 255)])])

\* a reduction amount in hundredths as a fraction in lowest terms
AmountNum(r) == r \div GCD(r, Unit)

AmountDen(r) == Unit \div GCD(r, Unit)

\* presets.py:545
CoreLimit == 90

\* presets.py:545-551: the feathered core mask (in 16ths), all zero when the
\* core step is skipped
CoreFeathered_IgnoresAmount(star_mask, reduction_amount, preserve_color) ==
    IF preserve_color
      THEN Feather(Erode(Erode(star_mask, 2), 2), Kernel5)
      ELSE Row([i \in 1..Len(star_mask) |-> 0])

CoreFeathered(star_mask, reduction_amount, preserve_color) ==
    IF preserve_color /\ reduction_amount < CoreLimit
      THEN Feather(Erode(Erode(star_mask, 2), 2), Kernel5)
      ELSE Row([i \in 1..Len(star_mask) |-> 0])

\* the blend with the mask left out of the weight of the original
BlendNum_UnmaskedFade(o, m, f, c, r) ==
    LET rn == AmountNum(r)
        rd == AmountDen(r)
        result == o * 64 * (rd - rn) + m * f * rn
    IN  result * (160 * rd - 3 * c * (rd - rn)) + o * 64 * rd * 3 * c * (rd - rn)

\* presets.py:542-556 for one sample: with mask weight f/64, core weight c/16,
\* amount rn/rd and core_preserve 3*(rd - rn)/(10*rd), the value
\* (o*(1 - f*r) + m*f*r)*(1 - c*p) + o*c*p as a numerator over BlendDen
BlendNum(o, m, f, c, r) ==
    LET rn == AmountNum(r)
        rd == AmountDen(r)
        result == o * (64 * rd - f * rn) + m * f * rn
    IN  result * (160 * rd - 3 * c * (rd - rn)) + o * 64 * rd * 3 * c * (rd - rn)

BlendDen(r) == 64 * AmountDen(r) * 160 * AmountDen(r)

\* np.clip(x, 0, 255).astype(np.uint8) of the fraction num/den
ClipToUint8(num, den) == Max2(0, Min2(MaxSample * den, num)) \div den

\* The float32 evaluation is exact when the value is zero, and, the core
\* weight being zero, when the mask weight is zero (the blend weight is 0.0 and
\* the original is multiplied by 1.0) or the amount is a multiple of 1/4.
\* Otherwise the amount, or 0.3*(1 - amount), is not a float32 number and each
\* of the few operations rounds: the computed value is within 2^-21 of the
\* exact one, relatively.
Slack(v, f, c, r) ==
    IF v = 0 \/ (c = 0 /\ (f = 0 \/ AmountDen(r) \in {1, 2, 4}))
      THEN 0 ELSE v \div 2097152 + 1

\* the least and the greatest sample the float32 evaluation may give
SampleLow(o, m, f, c, r) ==
    LET v == BlendNum(o, m, f, c, r) IN ClipToUint8(v - Slack(v, f, c, r), BlendDen(r))

SampleHigh(o, m, f, c, r) ==
    LET v == BlendNum(o, m, f, c, r) IN ClipToUint8(v + Slack(v, f, c, r), BlendDen(r))

\* presets.py:520-558: the grids reduce_stars may return for a non-empty mask.
\* A sample is a function of its operands (original, median, mask weight, core
\* weight): samples of equal operands round alike, `low` is the set of
\* operands whose value rounds to the lower sample.
ReduceCandidates(img, star_mask, reduction_amount, preserve_color) ==
    LET n == Len(img)
        median_bg == MedianBg(img)
        feathered == Feather(star_mask, Kernel7)
        core == CoreFeathered(star_mask, reduction_amount, preserve_color)
        operands == Row([i \in 1..n |-> Row([ch \in 1..3 |->
                        <<img[i][ch], median_bg[i][ch], feathered[i], core[i]>>])])
        lowest == Row([i \in 1..n |-> Row([ch \in 1..3 |->
                      SampleLow(img[i][ch], median_bg[i][ch], feathered[i], core[i],
                                reduction_amount)])])
        highest == Row([i \in 1..n |-> Row([ch \in 1..3 |->
                       SampleHigh(img[i][ch], median_bg[i][ch], feathered[i], core[i],
                                  reduction_amount)])])
        unsure == {operands[p[1]][p[2]] :
                      p \in {q \in (1..n) \X (1..3) :
                                lowest[q[1]][q[2]] # highest[q[1]][q[2]]}}
    IN  { [i \in 1..n |-> [ch \in 1..3 |->
              IF operands[i][ch] \in low THEN lowest[i][ch] ELSE highest[i][ch]]] :
          low \in SUBSET unsure }

ReduceRequests ==
    [endpoint : {"reduce"}, file : Files, corrupt : BOOLEAN, upload : StarGrids,
     reduction_amount : ReductionVals, star_mask : {NoGrid}, preserve_color : {TRUE}]
    \cup
    [endpoint : {"direct"}, file : {[ext |-> "", content_type |-> ""]},
     corrupt : {FALSE}, upload : StarGrids, reduction_amount : ReductionVals,
     star_mask : {NoGrid} \cup Masks, preserve_color : BOOLEAN]
    \cup
    \* the amounts the preset pipelines pass (presets.py:1011, 1240, 1298),
    \* with preserve_color=True, here on a mask of the caller's that covers
    \* the row, or all of it but the first pixel
    [endpoint : {"direct"}, file : {[ext |-> "", content_type |-> ""]},
     corrupt : {FALSE}, upload : StarGrids, reduction_amount : {85, 90},
     star_mask : {m \in Masks : \A i \in 2..RowLen : m[i] = 255},
     preserve_color : {TRUE}]

\* the handler or the caller gets its answer; the first image is kept for comparison
ReduceFinish(reply) ==
    /\ response' = reply
    /\ pc' = "done"
    /\ first' = IF reply.kind = "ok" /\ first = NoFirst
                THEN [image |-> reply.image, intensity |-> req.reduction_amount]
                ELSE first

\* a client posts to /api/reduce-stars, or a caller calls reduce_stars
reduce_receive ==
    /\ pc = "idle"
    /\ \E r \in ReduceRequests :
         /\ req' = r
         /\ pc' = IF r.endpoint = "reduce" THEN "r_validate" ELSE "r_call"
    /\ UNCHANGED <<registry, pool, prim, img_array, h_intensity, ewp, e_intensity, enhanced,
                   calls, response, oracle, rs, first>>

\* main.py:384-388
reduce_validate ==
    /\ pc = "r_validate"
    /\ IF ~validate_image_file(req.file)
         THEN ReduceFinish(Reply(400, "invalid_file", << >>, NoGrid, 0))
         ELSE pc' = "r_read" /\ UNCHANGED <<response, first>>
    /\ UNCHANGED <<registry, pool, prim, req, img_array, h_intensity, ewp, e_intensity,
                   enhanced, calls, oracle, rs>>

\* main.py:390-391: read and decode the upload
reduce_read ==
    /\ pc = "r_read"
    /\ calls' = calls \o << Call("file.read", NoGrid, << >>),
                            Call("decode_image", NoGrid, << >>) >>
    /\ IF req.corrupt
         THEN /\ ReduceFinish(Reply(400, "decode_failed", << >>, NoGrid, 0))
              /\ UNCHANGED img_array
         ELSE /\ img_array' = req.upload
              /\ pc' = "r_submit"
              /\ UNCHANGED <<response, first>>
    /\ UNCHANGED <<registry, pool, prim, req, h_intensity, ewp, e_intensity, enhanced,
                   oracle, rs>>

\* main.py:393-402: to BGR, then reduce_stars(img_bgr, None, reduction_amount,
\* True, True) is handed to the pool
reduce_submit ==
    /\ pc = "r_submit"
    /\ LET img_bgr == SwapRB(img_array) IN
         /\ rs' = [img |-> img_bgr, star_mask |-> NoGrid,
                   amount |-> req.reduction_amount, reduction_amount |-> 0,
                   preserve_color |-> TRUE, result |-> NoGrid]
         /\ calls' = Append(calls, Call("run_in_executor", img_bgr, << >>))
    /\ pc' = "rs_clamp"
    /\ UNCHANGED <<registry, pool, prim, req, img_array, h_intensity, ewp, e_intensity,
                   enhanced, response, oracle, first>>

\* a caller of the library calls reduce_stars(img, star_mask, amount, preserve_color)
reduce_direct_call ==
    /\ pc = "r_call"
    /\ rs' = [img |-> req.upload, star_mask |-> req.star_mask,
              amount |-> req.reduction_amount, reduction_amount |-> 0,
              preserve_color |-> req.preserve_color, result |-> NoGrid]
    /\ pc' = "rs_clamp"
    /\ UNCHANGED <<registry, pool, prim, req, img_array, h_intensity, ewp, e_intensity,
                   enhanced, calls, response, oracle, first>>

\* presets.py:504-507: clamp; at 0 return a copy of the input
rs_clamp ==
    /\ pc = "rs_clamp"
    /\ LET reduction_amount == ClampUnit(rs.amount) IN
         IF reduction_amount = 0
           THEN /\ rs' = [rs EXCEPT !.reduction_amount = reduction_amount,
                                    !.result = rs.img]
                /\ pc' = "rs_return"
           ELSE /\ rs' = [rs EXCEPT !.reduction_amount = reduction_amount]
                /\ pc' = "rs_detect"
    /\ UNCHANGED <<registry, pool, prim, req, img_array, h_intensity, ewp, e_intensity,
                   enhanced, calls, response, oracle, first>>

\* presets.py:510-513: without a mask, detect the stars
rs_detect ==
    /\ pc = "rs_detect"
    /\ IF rs.star_mask = NoGrid
         THEN LET sensitivity == Sensitivity(rs.reduction_amount) IN
              \E star_mask \in
                    Results("detect_stars_aggressive", <<rs.img, sensitivity>>,
                            detect_stars_aggressive(rs.img, sensitivity)) :
                /\ oracle' = Remember("detect_stars_aggressive",
                                      <<rs.img, sensitivity>>, star_mask)
                /\ rs' = [rs EXCEPT !.star_mask = star_mask]
                /\ calls' = Append(calls, Call("detect_stars_aggressive", rs.img,
                                               <<sensitivity>>))
         ELSE UNCHANGED <<rs, calls, oracle>>
    /\ pc' = "rs_count"
    /\ UNCHANGED <<registry, pool, prim, req, img_array, h_intensity, ewp, e_intensity,
                   enhanced, response, first>>

\* presets.py:516-518: no star, return a copy of the input
rs_count ==
    /\ pc = "rs_count"
    /\ IF star_count(rs.star_mask) = 0
         THEN rs' = [rs EXCEPT !.result = rs.img] /\ pc' = "rs_return"
         ELSE pc' = "rs_blend" /\ UNCHANGED rs
    /\ UNCHANGED <<registry, pool, prim, req, img_array, h_intensity, ewp, e_intensity,
                   enhanced, calls, response, oracle, first>>

\* presets.py:520-558: median background, feathered mask, blend, core step,
\* conversion to samples
rs_blend ==
    /\ pc = "rs_blend"
    /\ LET args == <<rs.img, rs.star_mask, rs.reduction_amount, rs.preserve_color>> IN
         \E out \in Results("reduce_stars.float32", args,
                            ReduceCandidates(rs.img, rs.star_mask,
                                             rs.reduction_amount, rs.preserve_color)) :
           /\ oracle' = Remember("reduce_stars.float32", args, out)
           /\ rs' = [rs EXCEPT !.result = out]
    /\ calls' = calls
          \o << Call("cv2.medianBlur", rs.img, <<kernel_size>>),
                Call("cv2.GaussianBlur", rs.star_mask, <<7>>),
                Call("blend", rs.img, <<rs.reduction_amount>>) >>
          \o IF rs.preserve_color /\ rs.reduction_amount < CoreLimit
               THEN << Call("core_preserve", rs.img, <<rs.reduction_amount>>) >>
               ELSE << >>
    /\ pc' = "rs_return"
    /\ UNCHANGED <<registry, pool, prim, req, img_array, h_intensity, ewp, e_intensity,
                   enhanced, response, first>>

\* a library call inside reduce_stars raises: main.py:403-404 turns it into a
\* 500, a caller of the library gets the exception
rs_raises ==
    /\ pc = "rs_blend"
    /\ IF req.endpoint = "reduce"
         THEN ReduceFinish(Reply(500, "reduction_failed", << >>, NoGrid, 0))
         ELSE ReduceFinish(Reply(0, "Exception", << >>, NoGrid, 0))
    /\ UNCHANGED <<registry, pool, prim, req, img_array, h_intensity, ewp, e_intensity,
                   enhanced, calls, oracle, rs>>

\* presets.py:507, 518, 558: reduce_stars returns
rs_return ==
    /\ pc = "rs_return"
    /\ IF req.endpoint = "reduce"
         THEN pc' = "r_encode" /\ UNCHANGED <<response, first>>
         ELSE ReduceFinish(Reply(0, "ok", << >>, rs.result, rs.amount))
    /\ UNCHANGED <<registry, pool, prim, req, img_array, h_intensity, ewp, e_intensity,
                   enhanced, calls, oracle, rs>>

\* main.py:406-434: back to RGB, encode in the pool, answer with the amount
\* as it was sent
reduce_encode ==
    /\ pc = "r_encode"
    /\ calls' = Append(calls, Call("encode_output", SwapRB(rs.result), << >>))
    /\ ReduceFinish(Reply(200, "ok", << >>, SwapRB(rs.result), req.reduction_amount))
    /\ UNCHANGED <<registry, pool, prim, req, img_array, h_intensity, ewp, e_intensity,
                   enhanced, oracle, rs>>

\* main.py:418-419
reduce_encode_fails ==
    /\ pc = "r_encode"
    /\ calls' = Append(calls, Call("encode_output", SwapRB(rs.result), << >>))
    /\ ReduceFinish(Reply(500, "encode_failed", << >>, NoGrid, 0))
    /\ UNCHANGED <<registry, pool, prim, req, img_array, h_intensity, ewp, e_intensity,
                   enhanced, oracle, rs>>

\* the same grid is sent again with the same mask and colour flag, at the same
\* amount or at another one on the same side of the range
reduce_retry ==
    /\ pc = "done"
    /\ \E t \in {u \in ReductionVals : SameSide(u, req.reduction_amount)} :
         req' = [req EXCEPT !.reduction_amount = t]
    /\ pc' = IF req.endpoint = "reduce" THEN "r_validate" ELSE "r_call"
    /\ img_array' = NoGrid
    /\ rs' = NoReduce
    /\ calls' = << >>
    /\ response' = NoReply
    /\ UNCHANGED <<registry, pool, prim, h_intensity, ewp, e_intensity, enhanced, oracle, first>>

NextReduce ==
    \/ reduce_receive
    \/ reduce_validate
    \/ reduce_read
    \/ reduce_submit
    \/ reduce_direct_call
    \/ rs_clamp
    \/ rs_detect
    \/ rs_count
    \/ rs_blend
    \/ rs_raises
    \/ rs_return
    \/ reduce_encode
    \/ reduce_encode_fails
    \/ reduce_retry

SpecReduce == Init /\ [][NextReduce]_vars

(***************************************************************************)
(* Concurrent requests.  Every handler of main.py is a coroutine of one    *)
(* event loop thread (the request-accepting thread); its locals belong to  *)
(* the one request.  The pipelines and the output encoding are submitted   *)
(* to `executor` with loop.run_in_executor, and the handler awaits the     *)
(* future.  The executor is concurrent.futures.ThreadPoolExecutor: a       *)
(* submitted work item joins one FIFO queue and is taken by a worker       *)
(* thread; there are never more than max_workers worker threads.  Request  *)
(* i is one of the three uploads, in turn; requests are numbered in the    *)
(* order of their arrival.  The clients in Impatient may go away while     *)
(* their request is awaiting the pool.                                     *)
(*                                                                         *)
(* The result of a pipeline is a function of the arguments of the call     *)
(* (C10), written here as the term Term(fn, args); the grid a worker       *)
(* holds while the pipeline runs is Partial(fn, args).                     *)

(***************************************************************************)
(* Direct calls.  The registry query of main.py and the primitives of      *)
(* presets.py are functions of their arguments; SpecPrim is the behaviour  *)
(* of a caller that calls them one after the other, `prim` holding the     *)
(* arguments and the value of the call until the caller has used it.       *)
(***************************************************************************)
PrimUnchanged ==
    UNCHANGED <<registry, pool, pc, req, img_array, h_intensity, ewp,
                e_intensity, enhanced, calls, response, oracle, rs, first>>

\* main.py:46-56: one entry per item of PRESETS.items()
ListPresets_SkipsLast(reg) ==
    [i \in 1..(Len(reg) - 1) |->
        [id |-> reg[i].id, name |-> reg[i].name,
         description |-> reg[i].description, best_for |-> reg[i].best_for]]

ListPresets(reg) ==
    [i \in 1..Len(reg) |->
        [id |-> reg[i].id, name |-> reg[i].name,
         description |-> reg[i].description, best_for |-> reg[i].best_for]]

\* GET /api/presets
get_presets ==
    /\ prim = NoPrim
    /\ prim' = [fn |-> "get_presets", out |-> Row(ListPresets(registry))]
    /\ PrimUnchanged

(* calculate_adaptive_saturation (presets.py:685-770).  A multiplier is an  *)
(* integer number of SatDen-ths: base_multiplier is given in hundredths,    *)
(* sat_factor and variance_factor are counted in twentieths,                *)
(* brightness_factor in hundredths and distribution_factor in tenths, so    *)
(* the product of the five is exact.  The statistics are compared with      *)
(* their thresholds in integers; the sums of at most RowLen + 1 samples are *)
(* exact in float32 and no quotient comes nearer than 1/100000 to a         *)
(* threshold without being equal to it.                                     *)
SatDen == 40000000

SatLow == 48000000

SatHigh == 72000000

\* V of cv2.COLOR_BGR2HSV for 8-bit images
HsvValue(px) == Max2(px[1], Max2(px[2], px[3]))

\* S of cv2.COLOR_BGR2HSV for 8-bit images: 12-bit fixed point division table
HsvSaturation(px) ==
    LET v == HsvValue(px)
        diff == v - Min2(px[1], Min2(px[2], px[3]))
        sdiv == IF v = 0 THEN 0 ELSE (2 * 255 * 4096 + v) \div (2 * v)
    IN  (diff * sdiv + 2048) \div 4096

\* a[mask > 0]
RECURSIVE Masked(_, _)
Masked(a, mask) ==
    IF a = << >> THEN << >>
    ELSE (IF Head(mask) > 0 THEN << Head(a) >> ELSE << >>)
            \o Masked(Tail(a), Tail(mask))

\* the k-th smallest element of a
Kth(a, k) ==
    CHOOSE x \in {a[i] : i \in 1..Len(a)} :
        /\ Cardinality({i \in 1..Len(a) : a[i] <= x}) >= k
        /\ Cardinality({i \in 1..Len(a) : a[i] < x}) < k

\* 1000 * np.percentile(a, q / 10): linear interpolation between the two
\* nearest ranks
Percentile(a, q) ==
    LET pos == q * (Len(a) - 1)
        f == pos \div 1000
        lo == Kth(a, f + 1)
        hi == Kth(a, Min2(f + 2, Len(a)))
    IN  1000 * lo + (pos % 1000) * (hi - lo)

\* max(1.2, min(adaptive_multiplier, 1.8))
ClampSat_NoUpperLimit(m) == Max2(SatLow, m)

ClampSat(m) == Max2(SatLow, Min2(m, SatHigh))

\* presets.py:706-707: return base_multiplier
EmptyMaskResult_Clamped(base_multiplier) ==
    ClampSat(base_multiplier * (SatDen \div 100))

EmptyMaskResult(base_multiplier) == base_multiplier * (SatDen \div 100)

\* presets.py:730-761: the four factors
sat_factor(moon_sat) ==
    LET n == Len(moon_sat)
        s == SumSeq(moon_sat)
    IN  IF 100 * s < 15 * 255 * n THEN 26
        ELSE IF 100 * s < 25 * 255 * n THEN 23
        ELSE IF 100 * s > 40 * 255 * n THEN 17
        ELSE 20

variance_factor(moon_sat) ==
    LET n == Len(moon_sat)
        s == SumSeq(moon_sat)
        sq == SumSeq([i \in 1..n |-> moon_sat[i] * moon_sat[i]])
        nnvar == n * sq - s * s
    IN  IF 16 * nnvar > 23409 * n * n THEN 22
        ELSE IF 25 * nnvar < 10404 * n * n THEN 19
        ELSE 20

brightness_factor(moon_val) ==
    LET n == Len(moon_val)
        s == SumSeq(moon_val)
    IN  IF 10 * s < 3 * 255 * n THEN 105
        ELSE IF 10 * s > 7 * 255 * n THEN 98
        ELSE 100

distribution_factor(moon_sat) ==
    LET p75 == Percentile(moon_sat, 750)
    IN  IF p75 > 127500 THEN 9
        ELSE IF p75 < 51000 THEN 11
        ELSE 10

AdaptiveProduct(img, mask, base_multiplier) ==
    LET moon_sat == Masked(Row([i \in 1..Len(img) |-> HsvSaturation(img[i])]),
                           mask)
        moon_val == Masked(Row([i \in 1..Len(img) |-> HsvValue(img[i])]), mask)
    IN  base_multiplier * sat_factor(moon_sat) * variance_factor(moon_sat)
            * brightness_factor(moon_val) * distribution_factor(moon_sat)

calculate_adaptive_saturation(img, mask, base_multiplier) ==
    IF Masked(img, mask) = << >>
    THEN EmptyMaskResult(base_multiplier)
    ELSE ClampSat(AdaptiveProduct(img, mask, base_multiplier))

\* the pixels of img are black, white, a saturated or a dull colour (BGR);
\* base_multiplier is 0.5, 1.0, 1.4 or 2.0
call_adaptive_saturation ==
    /\ prim = NoPrim
    /\ \E img \in [1..RowLen -> { <<0, 0, 0>>, <<255, 255, 255>>,
                                  <<40, 80, 200>>, <<100, 120, 140>> }],
          mask \in Masks, base_multiplier \in {50, 100, 140, 200} :
          prim' = [fn |-> "calculate_adaptive_saturation",
                   img |-> img, mask |-> mask,
                   base_multiplier |-> base_multiplier,
                   out |-> calculate_adaptive_saturation(img, mask,
                                                         base_multiplier)]
    /\ PrimUnchanged

(* The 0.1-99.9 percentile stretch that opens enhance_deep_sky,            *)
(* enhance_general, enhance_nebula, enhance_galaxy and                     *)
(* enhance_star_cluster (presets.py:986-997, 1039-1050, 1216-1227,         *)
(* 1267-1278, 1326-1337), on the BGR grid cv_img.  The percentiles are     *)
(* counted in thousandths of a sample.  The float32 quotient is within     *)
(* 2^-21 of the exact one, relatively; where that leaves two samples       *)
(* possible, `low` is the set of sample values that give the lower one.    *)
\* np.clip((x - p_low) / (p_high - p_low) * 255, 0, 255).astype(np.uint8),
\* the least and the greatest sample the float32 evaluation may give
StretchLow(x, p_low, p_high) ==
    LET v == (1000 * x - p_low) * MaxSample
    IN  IF v <= 0 THEN 0
        ELSE IF 1000 * x >= p_high THEN MaxSample
        ELSE ClipToUint8(v - (v \div 2097152 + 1), p_high - p_low)

StretchHigh(x, p_low, p_high) ==
    LET v == (1000 * x - p_low) * MaxSample
    IN  IF v <= 0 THEN 0
        ELSE IF 1000 * x >= p_high THEN MaxSample
        ELSE ClipToUint8(v + (v \div 2097152 + 1), p_high - p_low)

\* one pass of the loop body; a division by p_high - p_low = 0 gives nan,
\* which the conversion to uint8 turns into 0 on the usual builds
StretchChannel_AlwaysDivides(channel, low) ==
    LET p_low == Percentile(channel, 1)
        p_high == Percentile(channel, 999)
    IN  IF p_high > p_low
        THEN Row([i \in 1..Len(channel) |->
                 IF channel[i] \in low
                 THEN StretchLow(channel[i], p_low, p_high)
                 ELSE StretchHigh(channel[i], p_low, p_high)])
        ELSE Row([i \in 1..Len(channel) |-> 0])

StretchChannel(channel, low) ==
    LET p_low == Percentile(channel, 1)
        p_high == Percentile(channel, 999)
    IN  IF p_high > p_low
        THEN Row([i \in 1..Len(channel) |->
                 IF channel[i] \in low
                 THEN StretchLow(channel[i], p_low, p_high)
                 ELSE StretchHigh(channel[i], p_low, p_high)])
        ELSE channel

\* the sample values of channel c whose stretched value is not determined
StretchUnsure(cv_img, c) ==
    LET channel == Channel(cv_img, c)
        p_low == Percentile(channel, 1)
        p_high == Percentile(channel, 999)
    IN  IF p_high > p_low
        THEN {channel[i] : i \in {j \in 1..Len(channel) :
                 StretchLow(channel[j], p_low, p_high)
                    # StretchHigh(channel[j], p_low, p_high)}}
        ELSE {}

percentile_stretch(cv_img, low) ==
    LET s == [c \in 1..3 |-> StretchChannel(Channel(cv_img, c), low[c])]
    IN  Row([i \in 1..Len(cv_img) |-> <<s[1][i], s[2][i], s[3][i]>>])

call_percentile_stretch ==
    /\ prim = NoPrim
    /\ \E cv_img \in [1..RowLen -> { <<10, 0, 7>>, <<10, 100, 7>>,
                                     <<10, 255, 200>>, <<90, 100, 50>> }] :
       \E b \in SUBSET StretchUnsure(cv_img, 1),
          g \in SUBSET StretchUnsure(cv_img, 2),
          r \in SUBSET StretchUnsure(cv_img, 3) :
          prim' = [fn |-> "percentile_stretch", cv_img |-> cv_img,
                   out |-> percentile_stretch(cv_img, <<b, g, r>>)]
    /\ PrimUnchanged

(* extract_background_gradient (presets.py:259-304) on an image of         *)
(* grid_size rows and 2 * grid_size columns whose rows are all equal,      *)
(* given by one row: every cell is one row high and two columns wide, the  *)
(* rows of background_samples are equal and cv2.resize keeps the number of *)
(* rows, so that the background model has equal rows as well.  A float     *)
(* value is an integer number of 1024ths; percentiles of two samples are   *)
(* quarters and the bicubic weights are 256ths, so every value is exact in *)
(* float32.                                                                *)
BgGridSize == 2

\* presets.py:271-285: 4 * background_samples[i, j, c] for the cell j
BackgroundSample(img, grid_size, j, c) ==
    LET cell_w == Len(img.row) \div grid_size
        cell == Row([k \in 1..cell_w |-> img.row[(j - 1) * cell_w + k][c]])
    IN  Percentile(cell, 250) \div 250

\* cv2.resize(background_samples, (w, h), INTER_CUBIC) for w twice the
\* number of samples: column dx (from 0) of the result, in 1024ths; the
\* taps outside the samples take the nearest sample.  The weights of
\* cv2.INTER_CUBIC (A = -0.75) at the fractions 1/4 and 3/4 are in 256ths
ResizeCubicAt(samples, dx) ==
    LET f4 == 2 * dx - 1
        sx == ((f4 + 4) \div 4) - 1
        wt == IF f4 - 4 * sx = 1 THEN << 0 - 27, 225, 67, 0 - 9 >>
              ELSE << 0 - 9, 67, 225, 0 - 27 >>
        tap(k) == samples[Max2(1, Min2(Len(samples), sx + k))]
    IN  wt[1] * tap(0) + wt[2] * tap(1) + wt[3] * tap(2) + wt[4] * tap(3)

\* the shape (rows, columns) of cv2.resize(src, dsize): dsize is (width, height)
ResizeShape(dsize) == [h |-> dsize[2], w |-> dsize[1]]

\* x.astype(np.uint8) for the float32 x = v/1024: the fraction is dropped;
\* the conversion of a value outside the range of the type is undefined
\* behaviour in C, and the builds in use either wrap it (x86) or saturate it
Float32ToUint8(v, cast) ==
    LET t == IF v >= 0 THEN v \div 1024 ELSE 0 - ((0 - v) \div 1024)
    IN  IF t >= 0 /\ t <= MaxSample THEN t
        ELSE IF cast = "wrap" THEN t % 256
        ELSE IF t < 0 THEN 0 ELSE MaxSample

extract_background_gradient(img, grid_size, cast) ==
    LET h == img.h
        w == Len(img.row)
        samples == [c \in 1..3 |->
                       Row([j \in 1..grid_size |->
                           BackgroundSample(img, grid_size, j, c)])]
        shape == ResizeShape(<<w, h>>)
        background_model ==
            Row([x \in 1..shape.w |->
                Row([c \in 1..3 |-> ResizeCubicAt(samples[c], x - 1)])])
        \* 2 * np.median(background_model), in 1024ths: each value of the
        \* row occurs in every row of the model
        values == Row([k \in 1..(3 * shape.w) |->
                      background_model[((k - 1) \div 3) + 1]
                                      [((k - 1) % 3) + 1]])
        neutral_bg2 == Kth(values, (3 * shape.w + 1) \div 2)
                          + Kth(values, ((3 * shape.w) \div 2) + 1)
    IN  IF shape # [h |-> h, w |-> w]
        THEN [raised |-> TRUE, background_model |-> background_model,
              shape |-> shape]
        ELSE [raised |-> FALSE, background_model |-> background_model,
              shape |-> shape,
              corrected |->
                 [h |-> h,
                  row |-> Row([x \in 1..w |-> Row([c \in 1..3 |->
                      ClipToUint8(2048 * img.row[x][c]
                                     - 2 * background_model[x][c]
                                     + neutral_bg2, 2048)])])],
              background |->
                 [h |-> shape.h,
                  row |-> Row([x \in 1..shape.w |-> Row([c \in 1..3 |->
                      Float32ToUint8(background_model[x][c], cast)])])]]

call_extract_background_gradient ==
    /\ prim = NoPrim
    /\ \E img \in [h : {BgGridSize},
                    row : [1..(2 * BgGridSize) ->
                              { <<0, 0, 0>>, <<255, 255, 255>>,
                                <<0, 128, 255>> }]],
          cast \in {"wrap", "saturate"} :
          prim' = [fn |-> "extract_background_gradient", img |-> img,
                   grid_size |-> BgGridSize,
                   out |-> extract_background_gradient(img, BgGridSize, cast)]
    /\ PrimUnchanged

(* Shapes.  The shape of an array is the sequence of its dimensions:       *)
(* <<h, w, 3>> for a grid, <<h, w>> for a mask or one channel, << >> for a *)
(* number.  ShapeOf follows the statements of each function of presets.py  *)
(* and gives the shape of the array it returns for a grid of shape s, or   *)
(* ShapeError where NumPy or OpenCV would refuse the operands.  The        *)
(* filters, colour conversions and thresholds of OpenCV and scikit-image   *)
(* return an array of the shape of their input; cv2.addWeighted and        *)
(* cv2.merge take arrays of one shape.                                     *)
MaxSide == 3

ShapeError == << 0 - 1 >>

\* NumPy broadcasting of two operands: dimensions are matched from the last
\* one, and two dimensions match when they are equal or one of them is 1
Broadcast_EqualOnly(a, b) == IF a = b THEN a ELSE ShapeError

Broadcast(a, b) ==
    IF a = ShapeError \/ b = ShapeError THEN ShapeError
    ELSE LET n == Max2(Len(a), Len(b))
             da(i) == IF i > n - Len(a) THEN a[i - (n - Len(a))] ELSE 1
             db(i) == IF i > n - Len(b) THEN b[i - (n - Len(b))] ELSE 1
         IN  IF \A i \in 1..n : da(i) = db(i) \/ da(i) = 1 \/ db(i) = 1
             THEN Row([i \in 1..n |-> Max2(da(i), db(i))])
             ELSE ShapeError

RECURSIVE ShapeOf(_, _, _)
ShapeOf(fn, s, opt) ==
    LET num == << >>
        \* x[:, :, c], cv2.split, cv2.cvtColor(x, cv2.COLOR_BGR2GRAY)
        Plane(x) == IF x = ShapeError THEN x ELSE << x[1], x[2] >>
        \* m[:, :, np.newaxis]
        NewAxis(m) == IF m = ShapeError THEN m ELSE Append(m, 1)
        \* np.stack([m] * 3, axis=-1), cv2.merge([l, a, b])
        Stack3(m) == IF m = ShapeError THEN m ELSE Append(m, 3)
        \* x[:, :, c] = v and x += v
        Store(target, v, whole) ==
            IF Broadcast(target, v) = target THEN whole ELSE ShapeError
        \* cv2.addWeighted(x, alpha, y, beta, 0), cv2.absdiff(x, y)
        Same(x, y) == IF x = y THEN x ELSE ShapeError
        \* np.where(c, x, y)
        Where(c, x, y) == Broadcast(Broadcast(c, x), y)
        \* x * (1 - m * k) + y * m * k  with a number k
        Mix(x, y, m) ==
            Broadcast(Broadcast(x, Broadcast(num, Broadcast(m, num))),
                      Broadcast(Broadcast(y, m), num))
        \* the loop `for i in range(3)` of the histogram stretch
        Stretch(x) == Store(Plane(x), Broadcast(Plane(x), num), x)
        \* hsv[:, :, k] = hsv[:, :, k] * f; np.clip; cv2.cvtColor
        Boost(x) == Store(Plane(x), Broadcast(Plane(x), num), x)
        \* cv2.GaussianBlur and cv2.addWeighted
        Unsharp(x) == Same(x, x)
        \* l = np.where(moon_mask > 0, l_new, l); cv2.merge; cv2.cvtColor
        MaskedL(x) ==
            Stack3(Same(Where(Plane(x), Broadcast(Plane(x), num), Plane(x)),
                        Plane(x)))
        \* np.where(moon_mask[:, :, np.newaxis] > 0, y, x)
        MaskedGrid(x, y) == Where(NewAxis(Plane(x)), y, x)
        flags(a, b) == [a |-> a, b |-> b, preset |-> "none"]
    IN  CASE fn \in {"estimate_noise_level", "calculate_adaptive_saturation"}
               -> num
          [] fn \in {"create_star_mask", "detect_stars_aggressive"}
               -> Plane(s)
          [] fn \in {"adaptive_denoise", "wavelet_denoise",
                     "remove_stars_inpaint"}
               -> s
          [] fn = "astro_denoise"
               -> LET denoised == ShapeOf("wavelet_denoise", s, opt)
                      edge == IF opt.a
                              THEN Mix(denoised, denoised,
                                       NewAxis(Broadcast(Plane(denoised), num)))
                              ELSE denoised
                  IN  IF opt.b
                      THEN Mix(edge, s, NewAxis(Broadcast(Plane(s), num)))
                      ELSE edge
          [] fn = "auto_white_balance"
               -> Store(Plane(s), Broadcast(Plane(s), num), s)
          [] fn = "extract_background_gradient"
               -> LET model == ResizeShape(<< s[2], s[1] >>)
                  IN  Broadcast(Broadcast(s, << model.h, model.w, 3 >>), num)
          [] fn = "apply_with_star_protection"
               -> LET star_mask_3ch == Stack3(Plane(s))
                      result == Broadcast(s, Broadcast(num,
                                    Broadcast(star_mask_3ch, num)))
                  IN  Store(result,
                            Broadcast(Broadcast(s, star_mask_3ch), num), result)
          [] fn = "reduce_stars"
               -> LET star_mask == ShapeOf("detect_stars_aggressive", s, opt)
                      median_bg == Store(Plane(s), Plane(s), s)
                      result == Mix(s, median_bg, Stack3(star_mask))
                  IN  IF opt.a THEN Mix(result, s, Stack3(star_mask))
                      ELSE result
          [] fn = "add_star_spikes"
               -> IF opt.a
                  THEN LET spike_layer == Store(<< 3 >>,
                                                Broadcast(<< 3 >>, num), s)
                       IN  Broadcast(s, spike_layer)
                  ELSE s
          [] fn \in {"scnr_green_removal", "asinh_stretch"}
               -> Stack3(Broadcast(Plane(s), Broadcast(Plane(s), Plane(s))))
          [] fn = "background_protected_saturation"
               -> Store(Plane(s),
                        Broadcast(Broadcast(Plane(s), Plane(s)),
                                  Broadcast(Plane(s), Plane(s))), s)
          [] fn = "enhance_mineral_moon_subtle"
               -> LET clahe == MaskedL(s)
                      hsv == Store(Plane(clahe),
                                   Where(Plane(s), Broadcast(Plane(clahe), num),
                                         Plane(clahe)), clahe)
                      sharp == MaskedGrid(hsv, Unsharp(hsv))
                      denoised == MaskedGrid(sharp, sharp)
                  IN  Where(NewAxis(Plane(s)), denoised, num)
          [] fn = "enhance_general"
               -> Boost(Stretch(s))
          [] fn = "enhance_star_cluster"
               -> ShapeOf("astro_denoise", Unsharp(Boost(Stretch(s))),
                          flags(FALSE, TRUE))
          [] fn \in {"enhance_deep_sky", "enhance_nebula"}
               -> LET reduced == ShapeOf("reduce_stars",
                                         Unsharp(Boost(Stretch(s))),
                                         flags(fn = "enhance_deep_sky", FALSE))
                  IN  ShapeOf("astro_denoise", Boost(reduced),
                              flags(TRUE, TRUE))
          [] fn = "enhance_galaxy"
               -> LET lab == Plane(Stretch(s))
                      clahe == Stack3(Same(lab, lab))
                      reduced == ShapeOf("reduce_stars",
                                         Unsharp(Boost(clahe)),
                                         flags(TRUE, FALSE))
                  IN  ShapeOf("astro_denoise", Boost(reduced),
                              flags(TRUE, TRUE))
          [] fn = "enhance_moon_hdr"
               -> LET clahe == MaskedL(s)
                      shadows == MaskedL(clahe)
                      highlights == MaskedL(shadows)
                      detail == MaskedGrid(highlights,
                                    Unsharp(Unsharp(Unsharp(highlights))))
                      contrast == MaskedL(detail)
                      denoised == MaskedGrid(contrast, contrast)
                  IN  Where(NewAxis(Plane(s)), denoised, num)
          [] fn = "enhance_with_preset"
               -> LET piped == ShapeOf(opt.preset, s, opt)
                      blended == IF opt.a
                                 THEN Broadcast(Broadcast(s, num),
                                                Broadcast(piped, num))
                                 ELSE piped
                  IN  IF opt.b
                      THEN ShapeOf("add_star_spikes", blended, flags(TRUE, FALSE))
                      ELSE blended

\* a caller passes a grid of h rows and w columns to one of the functions of
\* presets.py (opt: the options and branches that bear on the shape)
call_shape ==
    /\ prim = NoPrim
    /\ \E fn \in
          { "adaptive_denoise", "wavelet_denoise", "astro_denoise",
            "auto_white_balance", "extract_background_gradient",
            "create_star_mask", "apply_with_star_protection",
            "detect_stars_aggressive", "remove_stars_inpaint", "reduce_stars",
            "add_star_spikes", "scnr_green_removal", "asinh_stretch",
            "background_protected_saturation", "enhance_with_preset" }
              \cup {PRESETS[i].function : i \in 1..Len(PRESETS)},
          h \in 1..MaxSide, w \in 1..MaxSide,
          a \in BOOLEAN, b \in BOOLEAN :
       \E preset \in IF fn = "enhance_with_preset"
                     THEN {PRESETS[i].function : i \in 1..Len(PRESETS)}
                     ELSE {"none"} :
          prim' = [fn |-> "shape", of |-> fn, in |-> << h, w, 3 >>,
                   opt |-> [a |-> a, b |-> b, preset |-> preset],
                   out |-> ShapeOf(fn, << h, w, 3 >>,
                                   [a |-> a, b |-> b, preset |-> preset])]
    /\ PrimUnchanged


(* add_star_spikes, the drawing loop (presets.py:612-676), for one channel. *)
(* A star is what the loop keeps of a contour: its centre (cx, cy), its     *)
(* actual_length and its star_color.  Pixel coordinates start at 0 as in    *)
(* the code.  A value of the spike layer is an integer number of            *)
(* thousandths of star_color units; the factor falloff * width_factor of    *)
(* presets.py:666-669 is taken to the nearest thousandth.                   *)

\* the writes `spike_layer[py, px] = ...` that the loops over the angles and
\* the distances make for one star, in order: the pixel and star_color *
\* intensity.  int(np.cos(angle) * dist) is 0.7071 * dist cut towards zero,
\* with the signs of the quadrant of the angle
StarWrites(star, shape) ==
    LET len == star.actual_length
        cut(dist) == (7071 * dist) \div 10000
        sx(a) == IF a \in {0, 3} THEN 1 ELSE 0 - 1
        sy(a) == IF a \in {0, 1} THEN 1 ELSE 0 - 1
        fall(dist) ==
            IF len = 3 THEN << 492, 90, 5 >>[dist]
            ELSE << 643, 239, 50, 5 >>[dist]
        all == [k \in 1..(4 * len) |->
                   LET a == (k - 1) \div len
                       dist == ((k - 1) % len) + 1
                   IN  [px |-> star.cx + sx(a) * cut(dist),
                        py |-> star.cy + sy(a) * cut(dist),
                        value |-> star.star_color * fall(dist)]]
    IN  SelectSeq(all, LAMBDA wr : /\ 0 <= wr.px /\ wr.px < shape[2]
                                   /\ 0 <= wr.py /\ wr.py < shape[1])

\* the writes of all the stars, in the order of the contours
RECURSIVE SpikeWrites(_, _)
SpikeWrites(stars, shape) ==
    IF stars = << >> THEN << >>
    ELSE StarWrites(Head(stars), shape) \o SpikeWrites(Tail(stars), shape)

\* presets.py:607, 672-675: spike_layer after the loops, before the blur;
\* spike_layer[y + 1][x + 1] is the value at row y, column x
RECURSIVE spike_layer(_, _)
spike_layer(writes, shape) ==
    IF writes = << >>
    THEN Row([y \in 1..shape[1] |-> Row([x \in 1..shape[2] |-> 0])])
    ELSE LET before == spike_layer(SubSeq(writes, 1, Len(writes) - 1), shape)
             wr == writes[Len(writes)]
         IN  [before EXCEPT ![wr.py + 1][wr.px + 1] =
                 Max2(before[wr.py + 1][wr.px + 1], wr.value)]

\* a caller's image of 5 x 5 pixels holds one or two stars that pass the
\* checks of presets.py:615-622
call_add_star_spikes ==
    /\ prim = NoPrim
    /\ \E n \in 1..2 :
       \E stars \in [1..n -> [cx : {1, 3}, cy : {1, 2}, actual_length : {3, 4},
                              star_color : {40, 90}]] :
          prim' = [fn |-> "add_star_spikes", stars |-> stars,
                   shape |-> <<5, 5>>,
                   writes |-> SpikeWrites(stars, <<5, 5>>),
                   out |-> spike_layer(SpikeWrites(stars, <<5, 5>>), <<5, 5>>)]
    /\ PrimUnchanged

(* The moon pipelines (presets.py:908-970, 1064-1200) on one-row grids.     *)
(* The steps between the mask and the last np.where are library code        *)
(* (CLAHE, colour conversions, blur, denoising); `worked` is the grid they  *)
(* leave, any grid.                                                         *)

\* presets.py:925-926 and 1083-1089: the non-black area; enhance_moon_hdr
\* also closes and opens the mask with the 5 x 5 ellipse
moon_mask(fn, cv_img) ==
    LET gray == Gray(cv_img)
        thresh == IF fn = "enhance_mineral_moon_subtle" THEN 10 ELSE 15
        binary == Row([i \in 1..Len(gray) |->
                         IF gray[i] > thresh THEN 255 ELSE 0])
    IN  IF fn = "enhance_mineral_moon_subtle" THEN binary
        ELSE Dilate(Erode(Erode(Dilate(binary, 2), 2), 2), 2)

\* presets.py:967 and 1198: np.where(moon_mask[:, :, np.newaxis] > 0, enhanced, 0)
ForceBlack_KeepsBackground(img, mask) == img

ForceBlack(img, mask) ==
    Row([i \in 1..Len(img) |-> IF mask[i] > 0 THEN img[i] ELSE <<0, 0, 0>>])

\* a caller passes an RGB grid of dark, dim and bright pixels to one of the
\* two moon pipelines
call_moon_pipeline ==
    /\ prim = NoPrim
    /\ \E fn \in {"enhance_mineral_moon_subtle", "enhance_moon_hdr"},
          img \in [1..RowLen -> { <<10, 10, 10>>, <<12, 12, 12>>,
                                  <<200, 180, 160>> }],
          worked \in [1..RowLen -> { <<0, 0, 0>>, <<3, 1, 2>>,
                                     <<90, 100, 110>> }] :
          prim' = [fn |-> "moon_pipeline", of |-> fn, img_array |-> img,
                   worked |-> worked,
                   out |-> SwapRB(ForceBlack(worked,
                                  moon_mask(fn, SwapRB(img))))]
    /\ PrimUnchanged

(* The preset pipelines as sequences of steps (presets.py:908-1354): a step *)
(* is a call of a primitive or a commented block of the function, named     *)
(* after what it calls or assigns.                                          *)
PipelineSteps_BoostBeforeReduce(fn) ==
    << "cvtColor_RGB2BGR", "percentile_stretch", "saturation_boost",
       "unsharp_mask", "value_boost", "reduce_stars", "astro_denoise",
       "cvtColor_BGR2RGB" >>

PipelineSteps(fn) ==
    CASE fn = "enhance_mineral_moon_subtle" ->
           << "cvtColor_RGB2BGR", "moon_mask", "clahe",
              "calculate_adaptive_saturation", "saturation_boost",
              "unsharp_mask", "denoise", "force_black", "cvtColor_BGR2RGB" >>
      [] fn = "enhance_moon_hdr" ->
           << "cvtColor_RGB2BGR", "moon_mask", "clahe", "shadow_recovery",
              "highlight_compression", "unsharp_mask", "midtone_contrast",
              "denoise", "force_black", "cvtColor_BGR2RGB" >>
      [] fn = "enhance_general" ->
           << "cvtColor_RGB2BGR", "percentile_stretch", "saturation_boost",
              "denoise", "cvtColor_BGR2RGB" >>
      [] fn = "enhance_star_cluster" ->
           << "cvtColor_RGB2BGR", "percentile_stretch", "saturation_boost",
              "unsharp_mask", "astro_denoise", "cvtColor_BGR2RGB" >>
      [] fn = "enhance_galaxy" ->
           << "cvtColor_RGB2BGR", "percentile_stretch", "clahe",
              "saturation_boost", "unsharp_mask", "reduce_stars",
              "value_boost", "astro_denoise", "cvtColor_BGR2RGB" >>
      [] fn \in {"enhance_deep_sky", "enhance_nebula"} ->
           << "cvtColor_RGB2BGR", "percentile_stretch", "saturation_boost",
              "unsharp_mask", "reduce_stars", "value_boost", "astro_denoise",
              "cvtColor_BGR2RGB" >>

\* a caller calls one of the registered pipelines
call_pipeline ==
    /\ prim = NoPrim
    /\ \E i \in 1..Len(PRESETS) :
          prim' = [fn |-> "pipeline", of |-> PRESETS[i].function,
                   steps |-> << >>]
    /\ PrimUnchanged

\* the pipeline runs its next statement
pipeline_step ==
    /\ prim # NoPrim
    /\ prim.fn = "pipeline"
    /\ Len(prim.steps) < Len(PipelineSteps(prim.of))
    /\ prim' = [prim EXCEPT !.steps =
                   Append(@, PipelineSteps(prim.of)[Len(prim.steps) + 1])]
    /\ PrimUnchanged

\* the caller has used the value of the call
prim_return ==
    /\ prim # NoPrim
    /\ prim.fn = "pipeline" => Len(prim.steps) = Len(PipelineSteps(prim.of))
    /\ prim' = NoPrim
    /\ PrimUnchanged

\* presets.py:271-281: the cells extract_background_gradient samples, as the
\* slices img[y1:y2, x1:x2] (rows y1 .. y2 - 1, columns x1 .. x2 - 1)
GridCells(h, w, grid_size) ==
    LET cell_h == h \div grid_size
        cell_w == w \div grid_size
    IN  { [i |-> i, j |-> j,
           y1 |-> i * cell_h, y2 |-> (i + 1) * cell_h,
           x1 |-> j * cell_w, x2 |-> (j + 1) * cell_w] :
          i \in 0..(grid_size - 1), j \in 0..(grid_size - 1) }

\* a caller passes an image of h rows and w columns and a grid size
call_grid_cells ==
    /\ prim = NoPrim
    /\ \E h \in 1..MaxSide, w \in 1..MaxSide, grid_size \in 1..BgGridSize :
          prim' = [fn |-> "grid_cells", h |-> h, w |-> w,
                   grid_size |-> grid_size,
                   cells |-> GridCells(h, w, grid_size)]
    /\ PrimUnchanged

\* the row length of the direct calls of reduce_stars: long enough for a
\* pixel whose 7-tap neighbourhood holds no star while its median differs
LongRow == RowLen + 3

\* presets.py:478-558: a caller passes a one-row image, its own star mask (a
\* run of stars up to the right border), an amount and preserve_color, and gets
\* one of the grids reduce_stars may return
call_reduce_stars ==
    /\ prim = NoPrim
    /\ \E img \in [1..LongRow -> {<<10, 20, 30>>, <<200, 180, 160>>}],
          star_mask \in {[i \in 1..LongRow |-> IF i >= k THEN 255 ELSE 0] :
                           k \in 1..LongRow},
          amount \in ReductionVals,
          preserve_color \in BOOLEAN :
          \E out \in IF ClampUnit(amount) = 0 \/ star_count(star_mask) = 0
                       THEN {img}
                       ELSE ReduceCandidates(img, star_mask, ClampUnit(amount),
                                             preserve_color) :
             prim' = [fn |-> "reduce_stars", img |-> img, star_mask |-> star_mask,
                      amount |-> amount, preserve_color |-> preserve_color,
                      out |-> out]
    /\ PrimUnchanged

NextPrim ==
    \/ get_presets
    \/ call_adaptive_saturation
    \/ prim_return
    \/ call_percentile_stretch
    \/ call_extract_background_gradient
    \/ call_shape
    \/ call_reduce_stars
    \/ call_grid_cells
    \/ pipeline_step
    \/ call_pipeline
    \/ call_moon_pipeline
    \/ call_add_star_spikes

SpecPrim == Init /\ [][NextPrim]_vars

(***************************************************************************)
Impatient == {1, NumRequests}

Kind(i) == << "enhance", "preview", "reduce" >>[((i - 1) % 3) + 1]

Term(fn, arg) == [fn |-> fn, of |-> arg, complete |-> TRUE]

Partial(fn, arg) == [fn |-> fn, of |-> arg, complete |-> FALSE]

\* the decoded upload of request i, a function of the bytes of its file
Upload(i) == Term("decode_image", i)

\* the array the handler prepares for its pipeline: img_array (main.py:223),
\* thumbnail (main.py:343), img_bgr (main.py:395)
TaskInput(i) ==
    IF Kind(i) = "enhance" THEN Upload(i)
    ELSE IF Kind(i) = "preview" THEN Term("cv2.resize", Upload(i))
    ELSE Term("cv2.cvtColor", Upload(i))

PipelineOf(i) ==
    IF Kind(i) = "reduce" THEN "reduce_stars" ELSE "enhance_with_preset"

\* The lambda of main.py:234, 351, 402 closes over the locals of its own
\* handler call and reads them when the worker calls it.
ClosureArg_LastUpload(i) ==
    LET arrived == {j \in RequestIds : pool.r[j].st # "new"}
        last == CHOOSE j \in arrived : \A k \in arrived : k <= j
    IN  IF pool.r[i].st = "pipe_queued" THEN pool.r[last].val
        ELSE pool.r[i].val

ClosureArg(i) == pool.r[i].val

Running == {i \in RequestIds : pool.r[i].st \in {"pipe_running", "enc_running"}}

Awaiting(i) ==
    pool.r[i].st \in {"pipe_queued", "pipe_running", "enc_queued", "enc_running"}

PoolReply(status, image) == [status |-> status, image |-> image]

\* ThreadPoolExecutor.submit: the work item is appended to the queue
Submit(p, i, st, task, val) ==
    pool' = [p EXCEPT !.r[i].st = st,
                         !.r[i].val = val,
                         !.r[i].tasks = Append(@, task),
                         !.queue = Append(@, i)]

\* the handler up to its first await of the pool (main.py:211-236, 331-354,
\* 392-404); validation is the subject of Spec and SpecReduce
handler_submit(i) ==
    /\ pool.r[i].st = "new"
    /\ \A j \in RequestIds : j < i => pool.r[j].st # "new"
    /\ Submit(pool, i, "pipe_queued", "pipeline", TaskInput(i))
    /\ UNCHANGED <<registry, prim, pc, req, img_array, h_intensity, ewp,
                   e_intensity, enhanced, calls, response, oracle, rs, first>>

\* a worker thread takes the oldest work item; every worker is one thread
worker_start_NoLimit ==
    /\ pool.queue # << >>
    /\ LET i == Head(pool.queue)
           fn == IF pool.r[i].st = "pipe_queued" THEN PipelineOf(i)
                 ELSE "encode_output"
       IN  pool' = [pool EXCEPT
                !.queue = Tail(@),
                !.r[i].st = IF @ = "pipe_queued" THEN "pipe_running"
                            ELSE "enc_running",
                !.r[i].ran_on = Append(@, "worker"),
                !.r[i].work = Partial(fn, ClosureArg(i))]
    /\ UNCHANGED <<registry, prim, pc, req, img_array, h_intensity, ewp,
                   e_intensity, enhanced, calls, response, oracle, rs, first>>

worker_start ==
    /\ pool.queue # << >>
    /\ Cardinality(Running) < max_workers
    /\ LET i == Head(pool.queue)
           fn == IF pool.r[i].st = "pipe_queued" THEN PipelineOf(i)
                 ELSE "encode_output"
       IN  pool' = [pool EXCEPT
                !.queue = Tail(@),
                !.r[i].st = IF @ = "pipe_queued" THEN "pipe_running"
                            ELSE "enc_running",
                !.r[i].ran_on = Append(@, "worker"),
                !.r[i].work = Partial(fn, ClosureArg(i))]
    /\ UNCHANGED <<registry, prim, pc, req, img_array, h_intensity, ewp,
                   e_intensity, enhanced, calls, response, oracle, rs, first>>

\* The work item returns and the future holds the result of the whole call.
\* The event loop resumes the handlers in the order in which their futures
\* were resolved, so the rest of the handler up to its next await is taken
\* with the resolution: main.py:237-248 and 405-420 submit the encoding,
\* main.py:355-366 encodes the preview on the event loop thread, and
\* main.py:250-262 and 422-435 reply with the encoded image.
worker_finish(i) ==
    /\ i \in Running
    /\ LET result == Term(pool.r[i].work.fn, pool.r[i].work.of)
           done == [pool EXCEPT !.r[i].work = NoValue]
       IN  \/ /\ pool.r[i].st = "pipe_running"
              /\ Kind(i) = "enhance"
              /\ Submit(done, i, "enc_queued", "encode", result)
           \/ /\ pool.r[i].st = "pipe_running"
              /\ Kind(i) = "reduce"
              /\ Submit(done, i, "enc_queued", "encode",
                        Term("cv2.cvtColor", result))
           \/ /\ pool.r[i].st = "pipe_running"
              /\ Kind(i) = "preview"
              /\ pool' = [done EXCEPT
                      !.r[i].st = "replied",
                      !.r[i].val = result,
                      !.r[i].ran_on = Append(@, "handler"),
                      !.r[i].reply = PoolReply(200, Term("JPEG", result))]
           \/ /\ pool.r[i].st = "enc_running"
              /\ pool' = [done EXCEPT !.r[i].st = "replied",
                                      !.r[i].val = result,
                                      !.r[i].reply = PoolReply(200, result)]
    /\ UNCHANGED <<registry, prim, pc, req, img_array, h_intensity, ewp,
                   e_intensity, enhanced, calls, response, oracle, rs, first>>

\* The work item raises and the future holds the exception: the except
\* clause of the awaiting handler turns it into HTTPException(500)
\* (main.py:235-236, 247-248, 353-354, 403-404, 419-420).
worker_raise_Retries(i) ==
    /\ i \in Running
    /\ LET done == [pool EXCEPT !.r[i].work = NoValue,
                                !.r[i].raised = Append(@, pool.r[i].work.fn)]
       IN  IF pool.r[i].st = "pipe_running"
           THEN Submit(done, i, "pipe_queued", "pipeline", TaskInput(i))
           ELSE pool' = [done EXCEPT !.r[i].st = "replied",
                                     !.r[i].val = NoValue,
                                     !.r[i].reply = PoolReply(500, NoValue)]
    /\ UNCHANGED <<registry, prim, pc, req, img_array, h_intensity, ewp,
                   e_intensity, enhanced, calls, response, oracle, rs, first>>

worker_raise(i) ==
    /\ i \in Running
    /\ pool' = [pool EXCEPT !.r[i].work = NoValue,
                            !.r[i].raised = Append(@, pool.r[i].work.fn),
                            !.r[i].st = "replied",
                            !.r[i].val = NoValue,
                            !.r[i].reply = PoolReply(500, NoValue)]
    /\ UNCHANGED <<registry, prim, pc, req, img_array, h_intensity, ewp,
                   e_intensity, enhanced, calls, response, oracle, rs, first>>

\* The client of an awaiting request goes away.  Nothing in main.py reads
\* the state of the connection or cancels a future, and the server does not
\* cancel the handler of a request whose body it has read; a work item that
\* a worker has taken cannot be cancelled at all.
abandon_Cancels(i) ==
    /\ Awaiting(i)
    /\ i \in Impatient
    /\ i \notin pool.abandoned
    /\ pool' = [pool EXCEPT
            !.abandoned = @ \cup {i},
            !.r[i].st = IF i \in Running THEN "replied" ELSE @,
            !.r[i].reply = IF i \in Running
                           THEN PoolReply(200, pool.r[i].work) ELSE @]
    /\ UNCHANGED <<registry, prim, pc, req, img_array, h_intensity, ewp,
                   e_intensity, enhanced, calls, response, oracle, rs, first>>

abandon(i) ==
    /\ Awaiting(i)
    /\ i \in Impatient
    /\ i \notin pool.abandoned
    /\ pool' = [pool EXCEPT !.abandoned = @ \cup {i}]
    /\ UNCHANGED <<registry, prim, pc, req, img_array, h_intensity, ewp,
                   e_intensity, enhanced, calls, response, oracle, rs, first>>

NextPool ==
    \/ \E i \in RequestIds : handler_submit(i)
    \/ worker_start
    \/ \E i \in RequestIds : worker_finish(i)
    \/ \E i \in RequestIds : worker_raise(i)
    \/ \E i \in RequestIds : abandon(i)

SpecPool == Init /\ [][NextPool]_vars

(* Running work items terminate (the premise of C13) and a free worker     *)
(* takes the oldest work item.                                             *)
SpecPoolLive ==
    /\ Init
    /\ [][NextPool]_vars
    /\ WF_vars(worker_start)
    /\ \A i \in RequestIds :
          WF_vars(worker_finish(i) \/ worker_raise(i))


---------------------------------------------------------------------------
(* Properties of the request handlers and of enhance_with_preset *)

PipelineFns == {PRESETS[i].function : i \in 1..Len(PRESETS)}

IsEngineCall(c) == c.fn \in PipelineFns \cup {"blend", "add_star_spikes"}

\* the calls enhance_with_preset made, in order
EngineCalls == SelectSeq(calls, IsEngineCall)

\* enhance_with_preset has returned normally
Returned ==
    \/ pc \in {"ewp_return", "h_encode", "p_encode"}
    \/ pc = "done" /\ response.kind \in {"ok", "encode_failed"}

\* the request ended with an image
Succeeded == pc = "done" /\ response.kind = "ok"

\* what the pipeline of the requested preset returned for the engine's input
Full == (CHOOSE e \in Known(Lookup(PRESETS, ewp.preset).function, ewp.img) : TRUE).out

RoundNearest(x) == (x + 50) \div 100

\* C1: a preset identifier that is not in the registry is rejected before any
\* pixel work: while such a request is handled nothing is read, decoded,
\* submitted to the pool or computed, and it ends with 400 at the endpoints
\* and with the ValueError at the library call.
C1_UnknownPresetNoPixelWork ==
    (pc # "idle" /\ ~InRegistry(PRESETS, req.preset)) =>
        /\ calls = << >>
        /\ enhanced = NoGrid
        /\ pc = "done" =>
             IF req.endpoint = "direct"
               THEN response.kind = "ValueError"
               ELSE response.status = 400

C1_Witness ==
    /\ pc = "done"
    /\ req.endpoint = "enhance"
    /\ validate_image_file(req.file)
    /\ req.preset = "bogus"
    /\ response.kind = "invalid_preset"
    /\ calls = << >>

\* C2: every rejection of an invalid preset identifier gives the caller the
\* valid identifiers (the ValueError of enhance_with_preset, the 400 of
\* /api/enhance and the 400 of /api/preview-preset).
C2_RejectionListsValidPresets ==
    (pc = "done" /\ response.kind \in {"invalid_preset", "ValueError"}) =>
        response.available = RegistryKeys(PRESETS)

\* C3: for every valid request enhance_with_preset runs the pipeline registered
\* under the preset on the input, then blends only if intensity < 1.0, then,
\* only if star_spikes, calls add_star_spikes once on the blended result with
\* length 0.5, brightness 0.6, threshold factor 2.0 and 4 spikes.
C3_FixedStepOrder ==
    Returned =>
        LET ec == EngineCalls
            blends == ewp.intensity < 100
            blended == IF blends
                         THEN Blend(ewp.img, Full, Max2(0, ewp.intensity))
                         ELSE Full
        IN  /\ Len(ec) = 1 + (IF blends THEN 1 ELSE 0)
                           + (IF ewp.star_spikes THEN 1 ELSE 0)
            /\ ec[1].fn = Lookup(PRESETS, ewp.preset).function
            /\ ec[1].img = ewp.img
            /\ blends => ec[2].fn = "blend" /\ ec[2].img = Full
            /\ ewp.star_spikes =>
                 /\ ec[Len(ec)].fn = "add_star_spikes"
                 /\ ec[Len(ec)].img = SwapRB(blended)
                 /\ ec[Len(ec)].args = <<50, 60, 200, 4>>

C3_Witness ==
    /\ Succeeded
    /\ ewp.star_spikes
    /\ ewp.intensity = 75
    /\ Len(EngineCalls) = 3
    /\ EngineCalls[3].img # SwapRB(ewp.img)
    /\ EngineCalls[3].img # SwapRB(Full)

\* C4: an out-of-range intensity is not rejected and is used as the nearest end
\* of the range: a run with intensity > 1 gives the image a run of the same
\* request with intensity 1.0 gave, and a run with intensity < 0 the image of
\* the run with intensity 0.0 (in either order of the two runs).
C4_IntensityClamped ==
    (Succeeded /\ first # NoFirst) =>
        /\ (req.intensity >= 100 /\ first.intensity >= 100) =>
               response.image = first.image
        /\ (req.intensity <= 0 /\ first.intensity <= 0) =>
               response.image = first.image

C4_Witness ==
    /\ Succeeded
    /\ req.intensity = 175
    /\ first.intensity = 100
    /\ response.image = first.image
    /\ response.image # req.upload

Abs(x) == IF x < 0 THEN 0 - x ELSE x

\* C6: for an intensity strictly between 0 and 1, without spikes, every output
\* sample is within 1 of round(original*(1 - intensity) + full*intensity).
C6_LinearInterpolation ==
    (Succeeded /\ ~ewp.star_spikes /\ ewp.intensity > 0 /\ ewp.intensity < 100) =>
        \A i \in 1..Len(req.upload) : \A c \in 1..3 :
            Abs(response.image[i][c]
                - RoundNearest(req.upload[i][c] * (100 - ewp.intensity)
                               + Full[i][c] * ewp.intensity)) <= 1

C6_Witness ==
    /\ Succeeded
    /\ ~ewp.star_spikes
    /\ ewp.intensity = 50
    /\ \E i \in 1..Len(req.upload) : \E c \in 1..3 :
         /\ req.upload[i][c] # Full[i][c]
         /\ response.image[i][c] # req.upload[i][c]
         /\ response.image[i][c] # Full[i][c]

\* the exact value of the blend of sample c of pixel i, in hundredths
Exact(i, c) ==
    req.upload[i][c] * (100 - Max2(0, ewp.intensity)) + Full[i][c] * Max2(0, ewp.intensity)

Blended == Succeeded /\ ~ewp.star_spikes /\ ewp.intensity < 100 /\ req.endpoint # "preview"

\* C7 as stated: when intensity < 1.0 each blended value becomes the nearest
\* integer sample (100.75 gives 101).
C7_RoundsToNearest ==
    Blended =>
        \A i \in 1..Len(req.upload) : \A c \in 1..3 :
            response.image[i][c] = RoundNearest(Exact(i, c))

\* C7 as amended: when intensity < 1.0 each blended value is clipped to
\* [0, 255] and its fraction is dropped (100.75 gives 100).
C7_DropsFraction ==
    Blended =>
        \A i \in 1..Len(req.upload) : \A c \in 1..3 :
            /\ response.image[i][c] \in 0..255
            /\ response.image[i][c] * 100 <= Exact(i, c)
            /\ Exact(i, c) < (response.image[i][c] + 1) * 100

C7_Witness ==
    /\ Blended
    /\ \E i \in 1..Len(req.upload) : \E c \in 1..3 :
         Exact(i, c) = 10075 /\ response.image[i][c] = 100

\* C10: a run repeated with the same grid, preset, intensity and spikes flag
\* gives the image the first run gave, whatever ran or failed in between; no
\* run changes the registry or the array it was given.
C10_Deterministic ==
    /\ (first # NoFirst /\ req.intensity = first.intensity) =>
          /\ pc = "ewp_return" => enhanced = first.image
          /\ Succeeded => response.image = first.image
    /\ img_array # NoGrid => img_array = req.upload
    /\ registry = PRESETS

C10_Witness ==
    /\ pc = "ewp_return"
    /\ first # NoFirst
    /\ req.intensity = first.intensity
    /\ ewp.star_spikes
    /\ req.intensity = 75
    /\ enhanced = first.image
    /\ enhanced # req.upload

---------------------------------------------------------------------------
(* Properties of reduce_stars and of /api/reduce-stars *)

\* reduce_stars has returned normally
ReduceReturned ==
    \/ pc \in {"rs_return", "r_encode"}
    \/ pc = "done" /\ response.kind \in {"ok", "encode_failed"}

PixelWork == {"detect_stars_aggressive", "cv2.medianBlur", "cv2.GaussianBlur",
              "blend", "core_preserve"}

\* C8: reduce_stars does not reject a reduction amount outside [0, 1]: a run
\* with an amount > 1 gives the image of the run with 1.0, a run with an
\* amount < 0 the image of the run with 0.0; at an amount clamped to 0 the
\* result equals the input and no detection, median filter or blend ran.
C8_AmountClamped ==
    /\ (Succeeded /\ first # NoFirst) =>
          /\ (req.reduction_amount >= 100 /\ first.intensity >= 100) =>
                 response.image = first.image
          /\ (req.reduction_amount <= 0 /\ first.intensity <= 0) =>
                 response.image = first.image
    /\ (pc = "done" /\ response.status = 400) =>
          (~validate_image_file(req.file) \/ req.corrupt)
    /\ (pc = "done" /\ req.endpoint = "direct" /\ rs.amount <= 0) =>
          response.kind = "ok"
    /\ (ReduceReturned /\ rs.amount <= 0) =>
          /\ rs.result = rs.img
          /\ \A i \in 1..Len(calls) : calls[i].fn \notin PixelWork
          /\ Succeeded => response.image = req.upload

C8_Witness ==
    /\ Succeeded
    /\ req.reduction_amount = 150
    /\ first.intensity = 100
    /\ response.image = first.image
    /\ response.image # req.upload

AllZero(row) == \A i \in 1..Len(row) : row[i] = 0

\* C9: for every reduction amount in (0, 1], reduce_stars returns a grid equal
\* to its input when the star mask, given or detected, has no non-zero
\* element; on an all-zero image the detected mask is empty and the output is
\* the all-zero image.
C9_EmptyMaskNoOp ==
    /\ (ReduceReturned /\ rs.reduction_amount > 0 /\ AllZero(rs.star_mask)) =>
          /\ rs.result = rs.img
          /\ \A i \in 1..Len(calls) :
                calls[i].fn \notin {"cv2.medianBlur", "cv2.GaussianBlur", "blend",
                                    "core_preserve"}
          /\ Succeeded => response.image = req.upload
    /\ (pc \in {"rs_count", "rs_blend", "rs_return", "r_encode", "done"}
          /\ rs.reduction_amount > 0
          /\ req.star_mask = NoGrid
          /\ \A i \in 1..Len(req.upload) : req.upload[i] = <<0, 0, 0>>) =>
          /\ rs.star_mask # NoGrid
          /\ AllZero(rs.star_mask)
          /\ ReduceReturned => rs.result = req.upload

C9_Witness ==
    /\ Succeeded
    /\ req.endpoint = "reduce"
    /\ req.reduction_amount = 100
    /\ \A i \in 1..Len(req.upload) : req.upload[i] = <<0, 0, 0>>
    /\ rs.star_mask # NoGrid
    /\ AllZero(rs.star_mask)
    /\ \E i \in 1..Len(calls) : calls[i].fn = "detect_stars_aggressive"
    /\ response.image = req.upload

(***************************************************************************)
(* Concurrent requests (SpecPool, SpecPoolLive).                           *)
(***************************************************************************)
\* what request i computes when it is the only request of the process
AlonePipeline(i) ==
    IF Kind(i) = "enhance"
    THEN [fn |-> "enhance_with_preset",
          of |-> [fn |-> "decode_image", of |-> i, complete |-> TRUE]]
    ELSE IF Kind(i) = "preview"
    THEN [fn |-> "enhance_with_preset",
          of |-> [fn |-> "cv2.resize", complete |-> TRUE,
                  of |-> [fn |-> "decode_image", of |-> i, complete |-> TRUE]]]
    ELSE [fn |-> "reduce_stars",
          of |-> [fn |-> "cv2.cvtColor", complete |-> TRUE,
                  of |-> [fn |-> "decode_image", of |-> i, complete |-> TRUE]]]

AloneResult(i) == AlonePipeline(i) @@ [complete |-> TRUE]

AloneImage(i) ==
    IF Kind(i) = "enhance"
    THEN [fn |-> "encode_output", of |-> AloneResult(i), complete |-> TRUE]
    ELSE IF Kind(i) = "preview"
    THEN [fn |-> "JPEG", of |-> AloneResult(i), complete |-> TRUE]
    ELSE [fn |-> "encode_output", complete |-> TRUE,
          of |-> [fn |-> "cv2.cvtColor", of |-> AloneResult(i),
                  complete |-> TRUE]]

\* C11: under every interleaving of enhance, preview and reduce-stars
\* requests the preset registry keeps its initial content, the grid a worker
\* processes for a request is computed from that request's upload alone, and
\* the image a request returns is the image it returns when it runs alone.
C11_RequestsIsolated ==
    /\ registry = PRESETS
    /\ \A i \in RequestIds :
          /\ pool.r[i].st = "pipe_running"
                => pool.r[i].work = AlonePipeline(i) @@ [complete |-> FALSE]
          /\ pool.r[i].st = "enc_running"
                => pool.r[i].work.of \in {AloneResult(i), AloneImage(i).of}
          /\ (pool.r[i].st = "replied" /\ pool.r[i].reply.status = 200)
                => pool.r[i].reply.image = AloneImage(i)

C11_Witness ==
    /\ \A i \in 1..3 : /\ pool.r[i].st = "replied"
                       /\ pool.r[i].reply.status = 200
    /\ pool.r[4].st = "pipe_running"
    /\ pool.r[5].st = "pipe_queued"

InQueue(i) == \E k \in 1..Len(pool.queue) : pool.queue[k] = i

\* C12: every pipeline runs on a worker of the one pool of 4 threads: at
\* most 4 work items run at any time, a work item submitted while the 4
\* workers are busy is in the queue (its request has no reply and nothing of
\* it is lost), and no submitted work item runs on the event loop thread.
C12_PoolOfFour ==
    /\ Cardinality(Running) <= max_workers
    /\ \A i \in RequestIds :
          /\ pool.r[i].st \in {"pipe_queued", "enc_queued"}
                <=> InQueue(i)
          /\ InQueue(i) => /\ pool.r[i].reply.status = 0
                           /\ pool.r[i].val # NoValue
                           /\ Len(pool.r[i].ran_on) = Len(pool.r[i].tasks) - 1
          /\ \A k \in 1..Len(pool.r[i].tasks) :
                k <= Len(pool.r[i].ran_on) => pool.r[i].ran_on[k] = "worker"
    /\ \A k, l \in 1..Len(pool.queue) :
          pool.queue[k] = pool.queue[l] => k = l

C12_Witness ==
    /\ Cardinality(Running) = max_workers
    /\ pool.queue # << >>
    /\ pool.r[Head(pool.queue)].st = "pipe_queued"

PipelineRaised(i) ==
    \E k \in 1..Len(pool.r[i].raised) : pool.r[i].raised[k] = PipelineOf(i)

\* C14: when the pipeline of an enhancement, preview or star-reduction
\* request raises, the request is answered with status 500 and no image,
\* its pipeline was submitted once, and no encoding is submitted for it.
C14_PipelineFailureIs500 ==
    \A i \in RequestIds :
        PipelineRaised(i) =>
            /\ pool.r[i].st = "replied"
            /\ pool.r[i].reply = [status |-> 500, image |-> NoValue]
            /\ pool.r[i].tasks = << "pipeline" >>
            /\ pool.r[i].raised = << PipelineOf(i) >>
            /\ ~InQueue(i)

C14_Witness ==
    \A i \in 1..3 : PipelineRaised(i) /\ pool.r[i].reply.status = 500

NoPartialReply ==
    \A i \in RequestIds :
        pool.r[i].reply.image # NoValue => pool.r[i].reply.image.complete

StartedThenEnds(i) ==
    i \in Running =>
        \/ pool'.r[i] = pool.r[i]
        \/ /\ pool'.r[i].work = NoValue
           /\ \/ /\ pool'.r[i].val # NoValue
                 /\ pool'.r[i].val.complete
                 /\ pool'.r[i].raised = pool.r[i].raised
              \/ /\ pool'.r[i].reply.status = 500
                 /\ pool'.r[i].raised # pool.r[i].raised

\* C13: a submitted pipeline eventually starts, that is, no request stays
\* for ever with its pipeline in the queue (running work items terminate);
\* a started work item is left alone until it returns or raises, also when
\* its client has gone away; and no reply carries a partially processed
\* grid.
C13_StartsAndRunsToEnd ==
    /\ \A i \in RequestIds :
          []<>(pool.r[i].st # "pipe_queued")
    /\ [][\A i \in RequestIds : StartedThenEnds(i)]_vars
    /\ []NoPartialReply

C13_Witness ==
    /\ pool.abandoned = Impatient
    /\ \A i \in Impatient : /\ pool.r[i].st = "replied"
                            /\ pool.r[i].reply.status = 200

(***************************************************************************)
(* Direct calls (SpecPrim).                                                *)
(***************************************************************************)
PresetIds ==
    << "mineral_moon_subtle", "deep_sky", "general", "moon_hdr", "nebula",
       "galaxy", "star_cluster" >>

\* C17: the registry holds exactly the 7 identifiers mineral_moon_subtle,
\* deep_sky, general, moon_hdr, nebula, galaxy, star_cluster, each with a
\* non-empty name, description and best-for text, and the answer of
\* /api/presets has exactly one entry for each of them and no other entry.
C17_SevenPresetsListedOnce ==
    /\ Len(registry) = 7
    /\ \A k \in 1..7 :
          /\ Cardinality({i \in 1..Len(registry) :
                             registry[i].id = PresetIds[k]}) = 1
          /\ Lookup(registry, PresetIds[k]).name # ""
          /\ Lookup(registry, PresetIds[k]).description # ""
          /\ Lookup(registry, PresetIds[k]).best_for # ""
    /\ prim.fn = "get_presets" =>
          /\ Len(prim.out) = 7
          /\ \A k \in 1..7 :
                Cardinality({i \in 1..Len(prim.out) :
                                prim.out[i].id = PresetIds[k]}) = 1
          /\ \A i \in 1..Len(prim.out) :
                /\ prim.out[i].name = Lookup(registry, prim.out[i].id).name
                /\ prim.out[i].description =
                      Lookup(registry, prim.out[i].id).description
                /\ prim.out[i].best_for =
                      Lookup(registry, prim.out[i].id).best_for

C17_Witness == prim.fn = "get_presets" /\ Len(prim.out) = 7

SaturationCalled == prim.fn = "calculate_adaptive_saturation"

\* C18 as stated: calculate_adaptive_saturation returns a multiplier in
\* [1.2, 1.8] for every image, every mask and every base multiplier.
C18_AlwaysInRange ==
    SaturationCalled => prim.out >= SatLow /\ prim.out <= SatHigh

\* C18 amended: calculate_adaptive_saturation returns a multiplier in
\* [1.2, 1.8] for every image, every base multiplier and every mask that has
\* a non-zero element.
C18_InRangeWhenMaskNotEmpty ==
    (SaturationCalled /\ ~AllZero(prim.mask))
        => prim.out >= SatLow /\ prim.out <= SatHigh

C18_Witness ==
    /\ SaturationCalled
    /\ ~AllZero(prim.mask)
    /\ AdaptiveProduct(prim.img, prim.mask, prim.base_multiplier) > SatHigh
    /\ prim.out = SatHigh

\* C19: called with a mask that has no non-zero element,
\* calculate_adaptive_saturation returns base_multiplier itself, whatever
\* the image, with no correction factor and no clamp applied.
C19_EmptyMaskReturnsBase ==
    (SaturationCalled /\ AllZero(prim.mask))
        => prim.out = prim.base_multiplier * (SatDen \div 100)

C19_Witness ==
    /\ SaturationCalled
    /\ AllZero(prim.mask)
    /\ prim.base_multiplier = 200
    /\ prim.out = 2 * SatDen

StretchCalled == prim.fn = "percentile_stretch"

EqualBounds(c) ==
    Percentile(Channel(prim.cv_img, c), 1)
        = Percentile(Channel(prim.cv_img, c), 999)

\* C20: in the percentile stretch that opens general, deep_sky, nebula,
\* galaxy and star_cluster, a channel whose 0.1 and 99.9 percentiles are
\* equal comes out sample for sample as it went in, whatever the other
\* channels hold, and a channel whose percentiles differ is stretched: its
\* least sample becomes 0 and its greatest 255.
C20_EqualBoundsChannelUnchanged ==
    StretchCalled =>
        \A c \in 1..3 :
            /\ Len(prim.out) = Len(prim.cv_img)
            /\ EqualBounds(c)
                  => Channel(prim.out, c) = Channel(prim.cv_img, c)
            /\ ~EqualBounds(c)
                  => \A i \in 1..Len(prim.cv_img) :
                        /\ prim.cv_img[i][c] = RowMin(Channel(prim.cv_img, c))
                              => prim.out[i][c] = 0
                        /\ prim.cv_img[i][c] = RowMax(Channel(prim.cv_img, c))
                              => prim.out[i][c] = MaxSample

C20_Witness ==
    /\ StretchCalled
    /\ EqualBounds(1)
    /\ Channel(prim.out, 1) = Channel(prim.cv_img, 1)
    /\ prim.cv_img[1][1] = 10
    /\ ~EqualBounds(2)
    /\ Channel(prim.out, 2) # Channel(prim.cv_img, 2)

BackgroundCalled ==
    prim.fn = "extract_background_gradient" /\ ~prim.out.raised

\* C15 as stated: every array a primitive returns was clipped into [0,255]
\* before its conversion to 8-bit samples; for extract_background_gradient,
\* every sample of the corrected image and of the returned background model
\* is the clipped value of its floating-point intermediate.
C15_ReturnedArraysClipped ==
    BackgroundCalled =>
        \A x \in 1..Len(prim.img.row), c \in 1..3 :
            /\ prim.out.background.row[x][c]
                  = ClipToUint8(prim.out.background_model[x][c], 1024)
            /\ prim.out.corrected.row[x][c] \in 0..MaxSample

\* C16: for a grid of any height and width, every preset pipeline,
\* enhance_with_preset with or without the blend and the spikes, and every
\* primitive that returns a grid return an array of the same height and
\* width with 3 channels; the primitives that return a mask return one of
\* the same height and width.
C16_ShapePreserved ==
    /\ prim.fn = "shape" =>
          IF prim.of \in {"create_star_mask", "detect_stars_aggressive"}
          THEN prim.out = << prim.in[1], prim.in[2] >>
          ELSE prim.out = prim.in /\ Len(prim.out) = 3 /\ prim.out[3] = 3
    /\ prim.fn = "extract_background_gradient" =>
          /\ ~prim.out.raised
          /\ prim.out.corrected.h = prim.img.h
          /\ Len(prim.out.corrected.row) = Len(prim.img.row)
          /\ prim.out.background.h = prim.img.h
          /\ Len(prim.out.background.row) = Len(prim.img.row)
          /\ \A x \in 1..Len(prim.img.row) :
                /\ Len(prim.out.corrected.row[x]) = 3
                /\ Len(prim.out.background.row[x]) = 3
    /\ prim.fn = "percentile_stretch" =>
          /\ Len(prim.out) = Len(prim.cv_img)
          /\ \A x \in 1..Len(prim.out) : Len(prim.out[x]) = 3

C16_Witness ==
    /\ prim.fn = "shape"
    /\ prim.of = "enhance_with_preset"
    /\ prim.opt = [a |-> TRUE, b |-> TRUE, preset |-> "enhance_moon_hdr"]
    /\ prim.in = << 1, 3, 3 >>
    /\ prim.out = prim.in

---------------------------------------------------------------------------
(* Properties of the preview thumbnail *)

\* the cv2.resize calls of the request
ResizeCalls == SelectSeq(calls, LAMBDA c : c.fn = "cv2.resize")

\* the preview handler has handed the pipeline to the pool
PreviewSubmitted ==
    /\ req.endpoint = "preview"
    /\ \E i \in 1..Len(calls) : calls[i].fn = "run_in_executor"

C28_ThumbnailSidesPositive ==
    req.endpoint = "preview" =>
        /\ \A i \in 1..Len(ResizeCalls) :
              ResizeCalls[i].args[1] >= 1 /\ ResizeCalls[i].args[2] >= 1
        /\ response.kind # "internal_error"

---------------------------------------------------------------------------
(* Properties of add_star_spikes *)

\* the contributions of the rays to the pixel of row y, column x
ContributionsAt(y, x) ==
    SelectSeq(prim.writes, LAMBDA wr : wr.py = y /\ wr.px = x)

\* C22: where rays of different stars, or different rays of one star, cover
\* the same pixel, the spike layer holds the sum of their contributions at
\* that pixel.
C22_OverlappingSpikesAdd ==
    prim.fn = "add_star_spikes" =>
        \A y \in 0..(prim.shape[1] - 1), x \in 0..(prim.shape[2] - 1) :
            prim.out[y + 1][x + 1] =
                SumSeq([k \in 1..Len(ContributionsAt(y, x)) |->
                           ContributionsAt(y, x)[k].value])

---------------------------------------------------------------------------
(* Properties of the blend of reduce_stars *)

\* reduce_stars returns after its blend: it found stars at an amount above 0
ReduceBlended ==
    /\ pc = "rs_return"
    /\ \E i \in 1..Len(calls) : calls[i].fn = "blend"

\* the core-preservation step ran
CoreStepRan == \E i \in 1..Len(calls) : calls[i].fn = "core_preserve"

\* the weights of the core step where it has to run: the star mask eroded
\* twice and feathered with the 5 x 5 kernel, in 16ths
CoreWeights ==
    IF rs.preserve_color /\ ClampUnit(rs.amount) < 90
    THEN Feather(Erode(Erode(rs.star_mask, 2), 2), Kernel5)
    ELSE Row([i \in 1..Len(rs.star_mask) |-> 0])

---------------------------------------------------------------------------
(* Properties of the preset pipelines *)

\* a pipeline has run all its statements
PipelineFinished ==
    /\ prim.fn = "pipeline"
    /\ Len(prim.steps) = Len(PipelineSteps(prim.of))

\* the steps run so far, without the two colour-order conversions
MainSteps ==
    SelectSeq(prim.steps,
              LAMBDA st : st \notin {"cvtColor_RGB2BGR", "cvtColor_BGR2RGB"})

\* C24: in the grid a moon pipeline returns every pixel outside the moon
\* mask is (0, 0, 0), whatever the masked steps left there, and the step
\* that forces it is the last one before the conversion back to RGB.
C24_BackgroundForcedBlack ==
    /\ prim.fn = "moon_pipeline" =>
          \A mask \in {moon_mask(prim.of, SwapRB(prim.img_array))} :
          \A i \in 1..Len(prim.out) :
             /\ mask[i] = 0 => prim.out[i] = <<0, 0, 0>>
             /\ (prim.of = "enhance_mineral_moon_subtle"
                    /\ Gray(SwapRB(prim.img_array))[i] <= 10)
                   => prim.out[i] = <<0, 0, 0>>
    /\ (PipelineFinished
           /\ prim.of \in {"enhance_mineral_moon_subtle", "enhance_moon_hdr"})
          => /\ prim.steps[Len(prim.steps) - 1] = "force_black"
             /\ prim.steps[Len(prim.steps)] = "cvtColor_BGR2RGB"

C24_Witness ==
    /\ prim.fn = "moon_pipeline"
    /\ prim.of = "enhance_mineral_moon_subtle"
    /\ prim.img_array[1] = <<10, 10, 10>>
    /\ prim.worked[1] = <<3, 1, 2>>
    /\ prim.out[1] = <<0, 0, 0>>
    /\ prim.img_array[2] = <<12, 12, 12>>
    /\ prim.out[2] = <<110, 100, 90>>

\* C26: deep_sky, nebula and galaxy run percentile stretch, (galaxy only:
\* CLAHE), saturation boost, unsharp mask, reduce_stars, value boost and
\* astro_denoise in this order, the value boost after the star reduction and
\* astro_denoise last; star_cluster and general never call reduce_stars.
C26_FixedPipelineSteps ==
    prim.fn = "pipeline" =>
        LET expected ==
                IF prim.of = "enhance_galaxy"
                THEN << "percentile_stretch", "clahe", "saturation_boost",
                        "unsharp_mask", "reduce_stars", "value_boost",
                        "astro_denoise" >>
                ELSE << "percentile_stretch", "saturation_boost",
                        "unsharp_mask", "reduce_stars", "value_boost",
                        "astro_denoise" >>
        IN  /\ prim.of \in {"enhance_deep_sky", "enhance_nebula",
                            "enhance_galaxy"} =>
                  /\ Len(MainSteps) <= Len(expected)
                  /\ MainSteps = SubSeq(expected, 1, Len(MainSteps))
                  /\ PipelineFinished => MainSteps = expected
            /\ prim.of \in {"enhance_star_cluster", "enhance_general"} =>
                  \A k \in 1..Len(prim.steps) : prim.steps[k] # "reduce_stars"

C26_Witness ==
    /\ PipelineFinished
    /\ prim.of = "enhance_galaxy"
    /\ MainSteps[5] = "reduce_stars"
    /\ MainSteps[6] = "value_boost"
    /\ MainSteps[Len(MainSteps)] = "astro_denoise"

\* C27: the nebula pipeline, registered with the description "Optimized
\* for emission nebulae with strong SCNR and saturation", runs the SCNR
\* green removal as one of its steps.
C27_NebulaRunsScnr ==
    (PipelineFinished /\ prim.of = Lookup(PRESETS, "nebula").function) =>
        \E k \in 1..Len(prim.steps) : prim.steps[k] = "scnr_green_removal"

\* C25: for every height, width and grid size the cells of
\* extract_background_gradient are non-empty and pairwise disjoint and cover
\* the image: every pixel lies in exactly one cell.
C25_CellsPartitionImage ==
    prim.fn = "grid_cells" =>
        /\ Cardinality(prim.cells) = prim.grid_size * prim.grid_size
        /\ \A c \in prim.cells : c.y1 < c.y2 /\ c.x1 < c.x2
        /\ \A y \in 0..(prim.h - 1), x \in 0..(prim.w - 1) :
              Cardinality({c \in prim.cells : /\ c.y1 <= y /\ y < c.y2
                                              /\ c.x1 <= x /\ x < c.x2}) = 1

\* ---- C29 ----

\* C29: in every successful answer of /api/reduce-stars the reduction_amount
\* reported to the caller is the clamped amount that reduce_stars applied
\* (the /api/enhance half of the claim holds: main.py:226 clamps the
\* intensity before it is used and reported)
C29_ReportedAmountIsApplied ==
    (pc = "done" /\ req.endpoint = "reduce" /\ response.status = 200) =>
        response.intensity = rs.reduction_amount

\* ---- C30 ----

\* a direct call of reduce_stars has returned after blending
ReduceStarsBlended ==
    /\ prim.fn = "reduce_stars"
    /\ ClampUnit(prim.amount) > 0
    /\ star_count(prim.star_mask) > 0

\* C30: reduce_stars leaves every pixel outside the feathered star mask
\* unchanged: for any amount and preserve_color, where the feathered mask has
\* weight 0 the core weight is 0 too and the output pixel equals the input
\* pixel in all three channels; at amount 1.0 a pixel of feathered weight 1
\* takes the value of the median-filtered background.
C30_OutsideMaskUnchanged ==
    ReduceStarsBlended =>
        \A r \in {ClampUnit(prim.amount)},
           feathered \in {Feather(prim.star_mask, Kernel7)},
           median_bg \in {MedianBg(prim.img)},
           core \in {CoreFeathered(prim.star_mask, ClampUnit(prim.amount),
                                   prim.preserve_color)} :
            \A i \in 1..Len(prim.img) :
                /\ feathered[i] = 0 =>
                      /\ core[i] = 0
                      /\ \A ch \in 1..3 : prim.out[i][ch] = prim.img[i][ch]
                /\ (r = Unit /\ feathered[i] = SumSeq(Kernel7)) =>
                      prim.out[i] = median_bg[i]

\* a partial reduction with the core step, one pixel out of reach of the
\* feathered mask whose median differs from it, and one pixel that changed
C30_Witness ==
    /\ ReduceStarsBlended
    /\ prim.preserve_color
    /\ ClampUnit(prim.amount) < CoreLimit
    /\ \E i \in 1..Len(prim.img) :
          /\ Feather(prim.star_mask, Kernel7)[i] = 0
          /\ MedianBg(prim.img)[i] # prim.img[i]
          /\ prim.out[i] = prim.img[i]
    /\ \E j \in 1..Len(prim.img) : prim.out[j] # prim.img[j]
====
